---- MODULE Spec2Model ----
(***************************************************************************)
(* The water workflow engine: the Flow builder (flow.py), the execution    *)
(* context (context.py) and the execution engine (execution_engine.py).    *)
(*                                                                         *)
(* One Flow object is built, registered and run.  A run is the coroutine   *)
(* ExecutionEngine.run; it is modelled at the granularity of its awaits:   *)
(* every invocation of a task body is one step and its return (or raise)   *)
(* a later step, so a synchronous body is the special case in which the    *)
(* return follows at once.  The siblings of a Parallel node are the tasks  *)
(* asyncio.gather schedules: they start in declaration order (the event    *)
(* loop's ready queue is FIFO), finish in any order, and are not cancelled *)
(* when one of them raises.                                                *)
(***************************************************************************)
EXTENDS Integers, Sequences, FiniteSets, TLC

\* ------------------------------------------------------------------ bounds
\* Longest node list the builder is driven to.
MaxNodes == 2
\* Number of Flow.run calls made on the flow.
MaxRuns == 1
\* Number of ExecutionContext objects made by hand, the first included.
MaxContexts == 3
\* Number of add_task_output calls made on one of them, its parents' included.
MaxRecords == 2
\* The latest time datetime.utcnow() returns.
MaxClock == 1
\* Number of get_all_task_outputs and get_step_history calls made.
MaxCopies == 2

\* ------------------------------------------------------------------- data
\* Python's None where a task, a data record, a context or an exception is
\* absent, and where a string (a task id, an exception type) is absent.
None == [none |-> TRUE]
NoneStr == "None"

\* A data record is a mapping from string keys.  {"value": n} is the scalar
\* record; a Parallel node's result maps task ids to data records.
Scalar(n) == [value |-> n]

\* The number a body or predicate reads from its input: the value of a
\* scalar record, the sum over the entries of a mapping of sub-results.
RECURSIVE Val(_)
Val(d) ==
    IF "value" \in DOMAIN d THEN d.value
    ELSE IF DOMAIN d = {} THEN 0
    ELSE LET k == CHOOSE k \in DOMAIN d : TRUE
         IN  Val(d[k]) + Val([j \in DOMAIN d \ {k} |-> d[j]])

\* -------------------------------------------------------------- the tasks
\* Task objects (task.py): an id and a callable body.  add5 and inc are two
\* distinct objects with the same id.
add5  == [id |-> "A", execute |-> "add5"]
dbl   == [id |-> "B", execute |-> "dbl"]
flaky == [id |-> "C", execute |-> "flaky"]
inc   == [id |-> "A", execute |-> "inc"]

\* Whether the body raises on input d: flaky raises once the value reaches 5.
BodyRaises(task, d) == task.execute = "flaky" /\ Val(d) >= 5

\* The exception a body or predicate raises on input d.
Exc(who, d) == [raised_by |-> who, input |-> d]

\* The record the body returns on input d (when it does not raise).
BodyOutput(task, d) ==
    CASE task.execute = "add5"  -> Scalar(Val(d) + 5)
      [] task.execute = "dbl"   -> Scalar(Val(d) * 2)
      [] task.execute = "flaky" -> Scalar(Val(d) + 1)
      [] task.execute = "inc"   -> Scalar(Val(d) + 10)

\* Condition functions (types.py ConditionFunction).  acond is a coroutine
\* function; boom raises when called; picky raises on a value of 5 or more
\* and is true below.
IsCoroutineFunction(condition) == condition = "acond"
CondRaises(condition, d) ==
    \/ condition = "boom"
    \/ condition = "picky" /\ Val(d) >= 5
CondValue(condition, d) ==
    CASE condition = "lt4"    -> Val(d) < 4
      [] condition = "picky"  -> TRUE
      [] condition = "always" -> TRUE
      [] condition = "never"  -> FALSE
      [] OTHER                -> TRUE

\* --------------------------------------------------- arguments the caller
\* passes to the builder and to run
ThenArgs == {add5, dbl, flaky, None}

ParallelArgs ==
    { <<>>,
      <<add5, dbl, flaky>>,
      <<add5, inc>>,
      <<inc, add5>>,
      <<dbl, None>> }

Pair(condition, task) == <<condition, task>>

BranchArgs ==
    { <<>>,
      <<Pair("lt4", add5), Pair("always", flaky), Pair("boom", dbl)>>,
      <<Pair("never", add5), Pair("lt4", flaky)>>,
      <<Pair("boom", add5), Pair("always", dbl)>>,
      <<Pair("lt4", None)>>,
      <<Pair("acond", add5)>> }

\* Default of Flow.loop's max_iterations parameter.
DEFAULT_MAX_ITERATIONS == 100

LoopArgs ==
    { <<"always", dbl, 0>>,
      <<"always", dbl, 1>>,
      <<"always", add5, 2>>,
      <<"lt4", add5, DEFAULT_MAX_ITERATIONS>>,
      <<"always", flaky, DEFAULT_MAX_ITERATIONS>>,
      <<"boom", add5, 2>>,
      <<"picky", add5, DEFAULT_MAX_ITERATIONS>>,
      <<"lt4", add5, -1>>,
      <<"acond", add5, 2>>,
      <<"always", None, 2>> }

RunInputs == { Scalar(2), Scalar(4) }

\* (key, value) passed to set_metadata
MetadataArgs == { <<"owner", "ops">> }

\* (key, value) passed to set_metadata while a run is in progress
LiveMetadataArgs == { <<"owner", "dev">> }

\* (key, value) passed to set_metadata by a caller that sets several keys
KeyArgs == { <<"owner", "ops">>, <<"owner", "dev">>, <<"team", "core">> }

\* ------------------------------------------------------ ExecutionContext
FlowId == "flow"

\* The dicts a context's flow_metadata can refer to: the dict Flow.metadata
\* itself, or a dict made by "{}", which nothing writes.
FlowMetadata == "Flow.metadata"
EmptyDict == "{}"

\* "flow_metadata or {}" where md is what Flow.metadata holds: the dict
\* handed over unless it is empty.
OrEmptyDict(flow_metadata, md) ==
    IF flow_metadata = FlowMetadata /\ md # <<>> THEN FlowMetadata ELSE EmptyDict

\* What a context exposes as flow metadata when Flow.metadata holds md.
Exposes(ctx, md) == IF ctx.flow_metadata = FlowMetadata THEN md ELSE <<>>

\* ExecutionContext.__init__ with the execution id given; flow_metadata is
\* the dict "flow_metadata or {}" yields.
ExecutionContext(flow_id, execution_id, task_id, step_number, attempt_number, flow_metadata) ==
    [ flow_id        |-> flow_id,
      execution_id   |-> execution_id,
      task_id        |-> task_id,
      step_number    |-> step_number,
      attempt_number |-> attempt_number,
      flow_metadata  |-> flow_metadata,
      task_outputs   |-> <<>>,
      step_history   |-> <<>> ]

\* dict assignment d[key] = value.
DictSet(d, key, value) == (key :> value) @@ d

\* add_task_output with the record put at the head of the history.
add_task_output_AtHead(self, task_id, output) ==
    [ self EXCEPT
        !.task_outputs = DictSet(@, task_id, output),
        !.step_history = <<[ step_number    |-> self.step_number,
                             task_id        |-> task_id,
                             output         |-> output,
                             attempt_number |-> self.attempt_number ]>> \o @ ]

\* ExecutionContext.add_task_output (the timestamp is left out)
add_task_output(self, task_id, output) ==
    [ self EXCEPT
        !.task_outputs = DictSet(@, task_id, output),
        !.step_history = Append(@, [ step_number    |-> self.step_number,
                                     task_id        |-> task_id,
                                     output         |-> output,
                                     attempt_number |-> self.attempt_number ]) ]

get_task_output(self, task_id) ==
    IF task_id \in DOMAIN self.task_outputs THEN self.task_outputs[task_id] ELSE None

\* step_number is an integer here; "step_number or (self.step_number + 1)"
\* takes the default for the falsy 0.  The child is handed the parent's
\* flow_metadata: Flow.metadata, which is not empty once a context refers
\* to it, or an empty dict, in whose place __init__ makes another.
create_child_context(self, task_id, step_number, attempt_number) ==
    [ ExecutionContext(self.flow_id, self.execution_id, task_id,
                       IF step_number # 0 THEN step_number ELSE self.step_number + 1,
                       attempt_number, self.flow_metadata)
      EXCEPT !.task_outputs = self.task_outputs,
             !.step_history = self.step_history ]

\* An ExecutionContext object: its scalar fields, and the addresses in heap
\* of the dict _task_outputs and of the list _step_history it refers to.
ContextObject(flow_id, execution_id, task_id, step_number, attempt_number, started, step_started, outputs, history) ==
    [ flow_id              |-> flow_id,
      execution_id         |-> execution_id,
      task_id              |-> task_id,
      step_number          |-> step_number,
      attempt_number       |-> attempt_number,
      execution_start_time |-> started,
      step_start_time      |-> step_started,
      _task_outputs        |-> outputs,
      _step_history        |-> history ]

\* f"step_{step_number}" and f"{task.id}_iter_{iteration_count}"
StepTaskId(step_number) == "step_" \o ToString(step_number)
IterTaskId(task, iteration_count) == task.id \o "_iter_" \o ToString(iteration_count)

\* ------------------------------------------------------------------ state
VARIABLES
    _tasks,         \* Flow._tasks: the node list
    _registered,    \* Flow._registered
    metadata,       \* Flow.metadata
    raised,         \* the error the last call on the Flow raised, if any
    runs,           \* number of executions started; the latest one's execution id
    pc,             \* where the latest ExecutionEngine.run stands
    input_data,     \* run's input_data argument
    inputs,         \* the data passed to _execute_node for each node started, in order
    step_number,    \* run's step_number
    data,           \* run's data
    context,        \* run's root context
    step_context,   \* run's step_context for the current node
    frame,          \* the _execute_task call whose body is running
    coros,          \* the coroutines handed to asyncio.gather and not yet collected
    gather_exc,     \* the exception set on the gather future, if any
    calls,          \* bodies invoked and predicates evaluated since the latest run began
    result,         \* what the latest run returned
    error,          \* what the latest run raised
    previous,       \* the input and outcome of the run before, kept by a caller that reruns
    created,        \* the Task the latest Task(...) call constructed
    create_raised,  \* the error the latest Task(...) call raised, if any
    ctxs,           \* ExecutionContext objects made by hand, in order of creation
    heap,           \* the dicts and lists these objects refer to, by address
    now,            \* the latest value datetime.utcnow() returned
    copies          \* what get_all_task_outputs and get_step_history returned to the caller

flowVars == <<_tasks, _registered, metadata>>
runVars == <<runs, pc, input_data, inputs, step_number, data, context, step_context, frame, coros,
             gather_exc, calls, result, error, previous>>
taskVars == <<created, create_raised>>
heapVars == <<ctxs, heap, now, copies>>
vars == <<_tasks, _registered, metadata, raised, runs, pc, input_data, inputs, step_number, data, context,
          step_context, frame, coros, gather_exc, calls, result, error, previous, created,
          create_raised, ctxs, heap, now, copies>>

NoFrame == [site |-> NoneStr, task |-> None, input |-> None, context |-> None,
            iteration_count |-> 0]

\* Flow.__init__; no run has been made.  One ExecutionContext has been
\* constructed by hand, at time 0, with an empty dict and an empty list; the
\* execution id generated for it is 1.
Init ==
    /\ _tasks = <<>>
    /\ _registered = FALSE
    /\ metadata = <<>>
    /\ raised = None
    /\ runs = 0
    /\ pc = "idle"
    /\ input_data = None
    /\ inputs = <<>>
    /\ step_number = 0
    /\ data = None
    /\ context = None
    /\ step_context = None
    /\ frame = NoFrame
    /\ coros = {}
    /\ gather_exc = None
    /\ calls = <<>>
    /\ result = None
    /\ error = None
    /\ previous = None
    /\ created = None
    /\ create_raised = None
    /\ ctxs = <<ContextObject(FlowId, 1, NoneStr, 0, 1, 0, 0, 1, 2)>>
    /\ heap = << <<>>, <<>> >>
    /\ now = 0
    /\ copies = <<>>

\* The caller calls the Flow's methods between the steps of its runs, never
\* from inside one, and stops building at MaxNodes nodes.
CallerMayCall == pc \in {"idle", "done", "failed"}

\* The exceptions the Flow's methods raise, with their messages.
RuntimeError(message) == [type |-> "RuntimeError", message |-> message]
ValueError(message) == [type |-> "ValueError", message |-> message]

\* A call on the Flow that raises: nothing but the error reaches the caller.
Raise(exc) ==
    /\ raised' = exc
    /\ UNCHANGED <<flowVars, runVars, taskVars, heapVars>>

\* AppendNode with the node put in front of the list.
AppendNode_AtHead(node) ==
    /\ Len(_tasks) < MaxNodes
    /\ _tasks' = <<node>> \o _tasks
    /\ raised' = None
    /\ UNCHANGED <<_registered, metadata, runVars, taskVars, heapVars>>

\* A builder call that appends node and returns self.
AppendNode(node) ==
    /\ Len(_tasks) < MaxNodes
    /\ _tasks' = Append(_tasks, node)
    /\ raised' = None
    /\ UNCHANGED <<_registered, metadata, runVars, taskVars, heapVars>>

\* -------------------------------------------------------------------- Flow
\* set_metadata with the mapping replaced by one that holds the key alone.
set_metadata_Replaces(key, value) ==
    /\ CallerMayCall
    /\ metadata' = (key :> value)
    /\ raised' = None
    /\ UNCHANGED <<_tasks, _registered, runVars, taskVars, heapVars>>

\* Flow.set_metadata
set_metadata(key, value) ==
    /\ CallerMayCall
    /\ metadata' = DictSet(metadata, key, value)
    /\ raised' = None
    /\ UNCHANGED <<_tasks, _registered, runVars, taskVars, heapVars>>

\* Flow.set_metadata called while a run of the flow awaits a body or a
\* gather: by that body, or by another coroutine of the event loop.
set_metadata_during_run(key, value) ==
    /\ pc \in {"task", "gather"}
    /\ metadata' = DictSet(metadata, key, value)
    /\ UNCHANGED <<_tasks, _registered, raised, runVars, taskVars, heapVars>>

SequentialNode(task) == [type |-> "sequential", task |-> task]
ParallelNode(tasks) == [type |-> "parallel", tasks |-> tasks]
BranchNode(branches) ==
    [type |-> "branch",
     branches |-> [i \in 1..Len(branches) |->
                     [condition |-> branches[i][1], task |-> branches[i][2]]]]
LoopNode(condition, task, max_iterations) ==
    [type |-> "loop", condition |-> condition, task |-> task,
     max_iterations |-> max_iterations]

\* then without the check of _registered.
then_Unguarded(task) ==
    /\ CallerMayCall
    /\ IF task = None THEN Raise(ValueError("Task cannot be None"))
       ELSE AppendNode(SequentialNode(task))

\* Flow.then
then(task) ==
    /\ CallerMayCall
    /\ IF _registered THEN Raise(RuntimeError("Cannot add tasks after registration"))
       ELSE IF task = None THEN Raise(ValueError("Task cannot be None"))
       ELSE AppendNode(SequentialNode(task))

\* Flow.parallel
parallel(tasks) ==
    /\ CallerMayCall
    /\ IF _registered THEN Raise(RuntimeError("Cannot add tasks after registration"))
       ELSE IF tasks = <<>> THEN Raise(ValueError("Parallel task list cannot be empty"))
       ELSE IF \E i \in 1..Len(tasks) : tasks[i] = None
            THEN Raise(ValueError("Task cannot be None"))
       ELSE AppendNode(ParallelNode(tasks))

\* The pairs the validation loop of Flow.branch rejects.
Rejected(branches) ==
    {i \in 1..Len(branches) :
        branches[i][2] = None \/ IsCoroutineFunction(branches[i][1])}

\* branch with the tasks validated and the conditions not.
branch_TasksOnly(branches) ==
    /\ CallerMayCall
    /\ IF _registered THEN Raise(RuntimeError("Cannot add tasks after registration"))
       ELSE IF branches = <<>> THEN Raise(ValueError("Branch list cannot be empty"))
       ELSE IF \E i \in 1..Len(branches) : branches[i][2] = None
            THEN Raise(ValueError("Task cannot be None"))
       ELSE AppendNode(BranchNode(branches))

\* Flow.branch: the loop raises at the first pair it rejects, for the task
\* before the condition.
branch(branches) ==
    /\ CallerMayCall
    /\ IF _registered THEN Raise(RuntimeError("Cannot add tasks after registration"))
       ELSE IF branches = <<>> THEN Raise(ValueError("Branch list cannot be empty"))
       ELSE IF Rejected(branches) # {}
            THEN LET i == CHOOSE i \in Rejected(branches) :
                             \A j \in Rejected(branches) : i <= j
                 IN  IF branches[i][2] = None
                     THEN Raise(ValueError("Task cannot be None"))
                     ELSE Raise(ValueError("Branch conditions cannot be async functions"))
       ELSE AppendNode(BranchNode(branches))

\* Flow.loop
loop(condition, task, max_iterations) ==
    /\ CallerMayCall
    /\ IF _registered THEN Raise(RuntimeError("Cannot add tasks after registration"))
       ELSE IF task = None THEN Raise(ValueError("Task cannot be None"))
       ELSE IF IsCoroutineFunction(condition)
            THEN Raise(ValueError("Loop conditions cannot be async functions"))
       ELSE AppendNode(LoopNode(condition, task, max_iterations))

\* Nodes whose "type" is a string that is no value of NodeType.
RawNodes == { [type |-> "retry", task |-> add5] }

\* The caller appends a node of its own making to flow._tasks before it
\* registers the flow: the node dicts carry their kind as a plain string.
append_raw(node) ==
    /\ CallerMayCall
    /\ ~_registered
    /\ AppendNode(node)

\* register without the check of the node list.
register_Unchecked ==
    /\ CallerMayCall
    /\ _registered' = TRUE
    /\ raised' = None
    /\ UNCHANGED <<_tasks, metadata, runVars, taskVars, heapVars>>

\* register as a toggle: a second call unregisters the flow.
register_Toggles ==
    /\ CallerMayCall
    /\ IF _tasks = <<>> THEN Raise(ValueError("Flow must have at least one task"))
       ELSE /\ _registered' = ~_registered
            /\ raised' = None
            /\ UNCHANGED <<_tasks, metadata, runVars, taskVars, heapVars>>

\* Flow.register
register ==
    /\ CallerMayCall
    /\ IF _tasks = <<>> THEN Raise(ValueError("Flow must have at least one task"))
       ELSE /\ _registered' = TRUE
            /\ raised' = None
            /\ UNCHANGED <<_tasks, metadata, runVars, taskVars, heapVars>>

\* ------------------------------------------------------- ExecutionEngine
\* Entries of calls: a task body invoked, a condition evaluated.
BodyCall(execution_id, step, task, d) ==
    [kind |-> "body", execution_id |-> execution_id, step_number |-> step,
     task |-> task, condition |-> NoneStr, input |-> d]
CondCall(execution_id, step, condition, d) ==
    [kind |-> "cond", execution_id |-> execution_id, step_number |-> step,
     task |-> None, condition |-> condition, input |-> d]

\* RunRaises with the exception wrapped in an error of the engine's own.
RunRaises_Wrapped(exc, log) ==
    /\ pc' = "failed"
    /\ error' = [raised_by |-> "ExecutionEngine", input |-> exc]
    /\ calls' = log
    /\ frame' = NoFrame
    /\ UNCHANGED <<data, context>>

\* An exception leaves ExecutionEngine.run: nothing catches it on the way.
RunRaises(exc, log) ==
    /\ pc' = "failed"
    /\ error' = exc
    /\ calls' = log
    /\ frame' = NoFrame
    /\ UNCHANGED <<data, context>>

\* NodeReturns with the node's output dropped: the next node is handed the
\* data the node itself was handed.
NodeReturns_InputForwarded(node, output, log) ==
    /\ data' = data
    /\ context' = IF "task" \in DOMAIN node
                  THEN add_task_output(context, node.task.id, output)
                  ELSE context
    /\ pc' = "for"
    /\ calls' = log
    /\ frame' = NoFrame
    /\ UNCHANGED error

\* run, after _execute_node returns output for node: the output becomes the
\* data and is recorded in the root context when the node has a 'task' key.
NodeReturns(node, output, log) ==
    /\ data' = output
    /\ context' = IF "task" \in DOMAIN node
                  THEN add_task_output(context, node.task.id, output)
                  ELSE context
    /\ pc' = "for"
    /\ calls' = log
    /\ frame' = NoFrame
    /\ UNCHANGED error

\* _execute_task with the context passed on as it was handed over.
_execute_task_Unscoped(site, task, d, ctx, iteration_count, log) ==
    /\ pc' = "task"
    /\ frame' = [site |-> site, task |-> task, input |-> d,
                 context |-> ctx,
                 iteration_count |-> iteration_count]
    /\ calls' = Append(log, BodyCall(ctx.execution_id, ctx.step_number, task, d))
    /\ UNCHANGED <<data, context, error>>

\* _execute_task up to the call of the body: the context passed is scoped to
\* the task and the body is invoked on d.
_execute_task(site, task, d, ctx, iteration_count, log) ==
    /\ pc' = "task"
    /\ frame' = [site |-> site, task |-> task, input |-> d,
                 context |-> [ctx EXCEPT !.task_id = task.id],
                 iteration_count |-> iteration_count]
    /\ calls' = Append(log, BodyCall(ctx.execution_id, ctx.step_number, task, d))
    /\ UNCHANGED <<data, context, error>>

\* The for loop's header for the node about to run: its index and its
\* step context.
NextStep == step_number + 1
NextNode == _tasks[NextStep]
NextStepContext == create_child_context(context, StepTaskId(NextStep), NextStep, 1)
AtNode(type) ==
    /\ pc = "for"
    /\ step_number < Len(_tasks)
    /\ NextNode.type = type
    /\ step_number' = NextStep
    /\ inputs' = Append(inputs, data)
    /\ UNCHANGED input_data

\* The values of the enum NodeType.
NodeTypes == {"sequential", "parallel", "branch", "loop"}

\* ExecuteUnknown with the node skipped: the run goes on with the next node
\* and the same data.
ExecuteUnknown_Skipped ==
    /\ NextStep <= Len(_tasks)
    /\ NextNode.type \notin NodeTypes
    /\ AtNode(NextNode.type)
    /\ pc' = "for"
    /\ step_context' = NextStepContext
    /\ UNCHANGED <<flowVars, taskVars, heapVars, raised, runs, previous, data, context, frame, coros,
                   gather_exc, calls, result, error>>

\* _execute_node for a node whose type is no value of NodeType: NodeType(...)
\* raises ValueError and _execute_node raises the ValueError that names the
\* type, which leaves run.
ExecuteUnknown ==
    /\ NextStep <= Len(_tasks)
    /\ NextNode.type \notin NodeTypes
    /\ AtNode(NextNode.type)
    /\ RunRaises(ValueError("Unknown node type: " \o NextNode.type), calls)
    /\ step_context' = NextStepContext
    /\ UNCHANGED <<flowVars, taskVars, heapVars, raised, runs, previous, coros, gather_exc, result>>

\* _execute_sequential
ExecuteSequential ==
    /\ AtNode("sequential")
    /\ _execute_task("sequential", NextNode.task, data, NextStepContext, 0, calls)
    /\ step_context' = [NextStepContext EXCEPT !.task_id = NextNode.task.id]
    /\ UNCHANGED <<flowVars, taskVars, heapVars, raised, runs, previous, coros, gather_exc, result>>

\* FirstMatch with the last matching branch taken instead of the first.
FirstMatch_Last(branches, d) ==
    LET S == {i \in 1..Len(branches) :
                \/ CondRaises(branches[i].condition, d)
                \/ CondValue(branches[i].condition, d)}
    IN  IF S = {} THEN 0 ELSE CHOOSE i \in S : \A j \in S : i >= j

\* FirstMatch with the last branch taken as a default when none matches.
FirstMatch_Default(branches, d) ==
    LET S == {i \in 1..Len(branches) :
                \/ CondRaises(branches[i].condition, d)
                \/ CondValue(branches[i].condition, d)}
    IN  IF S = {} THEN Len(branches) ELSE CHOOSE i \in S : \A j \in S : i <= j

\* The first branch at which _execute_branch's for loop stops on d: the first
\* whose condition raises or is true; 0 when it runs through.
FirstMatch(branches, d) ==
    LET S == {i \in 1..Len(branches) :
                \/ CondRaises(branches[i].condition, d)
                \/ CondValue(branches[i].condition, d)}
    IN  IF S = {} THEN 0 ELSE CHOOSE i \in S : \A j \in S : i <= j

\* The conditions _execute_branch evaluates on d, in order.
BranchEvaluations(branches, d, ctx) ==
    LET j == FirstMatch(branches, d)
        n == IF j = 0 THEN Len(branches) ELSE j
    IN  [i \in 1..n |-> CondCall(ctx.execution_id, ctx.step_number,
                                 branches[i].condition, d)]

\* _execute_branch up to the call of the matched task's body
ExecuteBranch ==
    /\ AtNode("branch")
    /\ LET branches == NextNode.branches
           j == FirstMatch(branches, data)
           log == calls \o BranchEvaluations(branches, data, NextStepContext)
       IN  IF j = 0
           THEN /\ NodeReturns(NextNode, data, log)
                /\ step_context' = NextStepContext
           ELSE IF CondRaises(branches[j].condition, data)
           THEN /\ RunRaises(Exc(branches[j].condition, data), log)
                /\ step_context' = NextStepContext
           ELSE /\ _execute_task("branch", branches[j].task, data, NextStepContext, 0, log)
                /\ step_context' = [NextStepContext EXCEPT !.task_id = branches[j].task.id]
    /\ UNCHANGED <<flowVars, taskVars, heapVars, raised, runs, previous, coros, gather_exc, result>>

\* LoopContinues as a do-while: the first iteration runs whatever the condition.
LoopContinues_DoWhile(condition, current_data, iteration_count, max_iterations) ==
    /\ iteration_count = 0 \/ CondValue(condition, current_data)
    /\ iteration_count < max_iterations

\* LoopContinues with the cap off by one.
LoopContinues_OffByOne(condition, current_data, iteration_count, max_iterations) ==
    CondValue(condition, current_data) /\ iteration_count <= max_iterations

\* LoopContinues without the cap: the loop goes on while the condition holds.
LoopContinues_Uncapped(condition, current_data, iteration_count, max_iterations) ==
    CondValue(condition, current_data)

\* LoopContinues with the cap applied from the second iteration on.
LoopContinues_CapAfterFirst(condition, current_data, iteration_count, max_iterations) ==
    /\ CondValue(condition, current_data)
    /\ iteration_count = 0 \/ iteration_count < max_iterations

\* The while test of _execute_loop once the condition has returned.
LoopContinues(condition, current_data, iteration_count, max_iterations) ==
    CondValue(condition, current_data) /\ iteration_count < max_iterations

\* LoopWhile with the operands of the while test in the other order: the
\* condition is not evaluated once the count has reached max_iterations.
LoopWhile_CapFirst(node, current_data, iteration_count, ctx, log) ==
    LET log1 == Append(log, CondCall(ctx.execution_id, ctx.step_number,
                                     node.condition, current_data))
    IN  IF iteration_count >= node.max_iterations
        THEN NodeReturns(node, current_data, log)
        ELSE IF CondRaises(node.condition, current_data)
        THEN RunRaises(Exc(node.condition, current_data), log1)
        ELSE IF CondValue(node.condition, current_data)
        THEN _execute_task("loop", node.task, current_data,
                           create_child_context(ctx, IterTaskId(node.task, iteration_count),
                                                ctx.step_number, iteration_count + 1),
                           iteration_count, log1)
        ELSE NodeReturns(node, current_data, log1)

\* _execute_loop from the while test on: the condition is evaluated on
\* current_data; the body is invoked with a fresh iteration context, or the
\* loop returns current_data.
LoopWhile(node, current_data, iteration_count, ctx, log) ==
    LET log1 == Append(log, CondCall(ctx.execution_id, ctx.step_number,
                                     node.condition, current_data))
    IN  IF CondRaises(node.condition, current_data)
        THEN RunRaises(Exc(node.condition, current_data), log1)
        ELSE IF LoopContinues(node.condition, current_data, iteration_count,
                              node.max_iterations)
        THEN _execute_task("loop", node.task, current_data,
                           create_child_context(ctx, IterTaskId(node.task, iteration_count),
                                                ctx.step_number, iteration_count + 1),
                           iteration_count, log1)
        ELSE NodeReturns(node, current_data, log1)

\* _execute_loop up to the first call of the body
ExecuteLoop ==
    /\ AtNode("loop")
    /\ LoopWhile(NextNode, data, 0, NextStepContext, calls)
    /\ step_context' = NextStepContext
    /\ UNCHANGED <<flowVars, taskVars, heapVars, raised, runs, previous, coros, gather_exc, result>>

\* TaskRaises with the exception swallowed: the node is skipped and the run
\* goes on with the data the node was handed.
TaskRaises_Swallowed ==
    /\ pc = "task"
    /\ BodyRaises(frame.task, frame.input)
    /\ NodeReturns(_tasks[step_number], frame.input, calls)
    /\ UNCHANGED <<flowVars, taskVars, heapVars, raised, runs, previous, input_data, inputs, step_number, step_context, coros,
                   gather_exc, result>>

\* The body _execute_task awaits raises: the exception leaves run.
TaskRaises ==
    /\ pc = "task"
    /\ BodyRaises(frame.task, frame.input)
    /\ RunRaises(Exc(frame.task.execute, frame.input), calls)
    /\ UNCHANGED <<flowVars, taskVars, heapVars, raised, runs, previous, input_data, inputs, step_number, step_context, coros,
                   gather_exc, result>>

\* The body of a Sequential node's task returns.
SequentialReturns ==
    /\ pc = "task"
    /\ frame.site = "sequential"
    /\ ~BodyRaises(frame.task, frame.input)
    /\ NodeReturns(_tasks[step_number], BodyOutput(frame.task, frame.input), calls)
    /\ UNCHANGED <<flowVars, taskVars, heapVars, raised, runs, previous, input_data, inputs, step_number, step_context, coros,
                   gather_exc, result>>

\* The body of the matched Branch task returns: its output is recorded in
\* the step context and is the node's result.
BranchReturns ==
    /\ pc = "task"
    /\ frame.site = "branch"
    /\ ~BodyRaises(frame.task, frame.input)
    /\ LET out == BodyOutput(frame.task, frame.input)
       IN  /\ step_context' = add_task_output(step_context, frame.task.id, out)
           /\ NodeReturns(_tasks[step_number], out, calls)
    /\ UNCHANGED <<flowVars, taskVars, heapVars, raised, runs, previous, input_data, inputs, step_number, coros, gather_exc, result>>

\* IterationReturns with the output recorded under the task's own id, not
\* under the id synthesized for the iteration.
IterationReturns_PlainId ==
    /\ pc = "task"
    /\ frame.site = "loop"
    /\ ~BodyRaises(frame.task, frame.input)
    /\ LET out == BodyOutput(frame.task, frame.input)
           ctx == add_task_output(step_context, frame.task.id, out)
       IN  /\ step_context' = ctx
           /\ LoopWhile(_tasks[step_number], out, frame.iteration_count + 1, ctx, calls)
    /\ UNCHANGED <<flowVars, taskVars, heapVars, raised, runs, previous, input_data, inputs, step_number, coros, gather_exc, result>>

\* IterationReturns with the next iteration handed the input of this one
\* again, not its output.
IterationReturns_InputReused ==
    /\ pc = "task"
    /\ frame.site = "loop"
    /\ ~BodyRaises(frame.task, frame.input)
    /\ LET out == BodyOutput(frame.task, frame.input)
           ctx == add_task_output(step_context,
                                  IterTaskId(frame.task, frame.iteration_count), out)
       IN  /\ step_context' = ctx
           /\ LoopWhile(_tasks[step_number], frame.input, frame.iteration_count + 1, ctx, calls)
    /\ UNCHANGED <<flowVars, taskVars, heapVars, raised, runs, previous, input_data, inputs, step_number, coros, gather_exc, result>>

\* The body of a Loop iteration returns: its output is recorded in the step
\* context, the count advances and the while test is made again.
IterationReturns ==
    /\ pc = "task"
    /\ frame.site = "loop"
    /\ ~BodyRaises(frame.task, frame.input)
    /\ LET out == BodyOutput(frame.task, frame.input)
           ctx == add_task_output(step_context,
                                  IterTaskId(frame.task, frame.iteration_count), out)
       IN  /\ step_context' = ctx
           /\ LoopWhile(_tasks[step_number], out, frame.iteration_count + 1, ctx, calls)
    /\ UNCHANGED <<flowVars, taskVars, heapVars, raised, runs, previous, input_data, inputs, step_number, coros, gather_exc, result>>

\* The coroutine _execute_parallel creates for tasks[i], with its own context.
Coroutine(ctx, tasks, i, d) ==
    [ execution_id |-> ctx.execution_id,
      step         |-> ctx.step_number,
      index        |-> i,
      task         |-> tasks[i],
      input        |-> d,
      context      |-> create_child_context(ctx, tasks[i].id, ctx.step_number + (i - 1), 1),
      status       |-> "pending",
      result       |-> None,
      exception    |-> None ]

\* _execute_parallel up to "await asyncio.gather(*coroutines)"
ExecuteParallel ==
    /\ AtNode("parallel")
    /\ step_context' = NextStepContext
    /\ coros' = coros \cup {Coroutine(NextStepContext, NextNode.tasks, i, data) :
                              i \in 1..Len(NextNode.tasks)}
    /\ gather_exc' = None
    /\ pc' = "gather"
    /\ UNCHANGED <<flowVars, taskVars, heapVars, raised, runs, previous, data, context, frame, calls, result, error>>

\* The coroutines of the gather the run is awaiting.
Awaited == {c \in coros : c.execution_id = runs /\ c.step = step_number}

\* Whether c belongs to the gather the run is suspended on.
IsAwaited(c) == pc = "gather" /\ c \in Awaited

\* The event loop runs the first step of a sibling: its body is invoked.
\* Siblings of one gather are started in the order they were handed over.
CoroutineStarts(c) ==
    /\ c.status = "pending"
    /\ \A o \in coros :
          (o.execution_id = c.execution_id /\ o.step = c.step /\ o.index < c.index)
             => o.status # "pending"
    /\ coros' = (coros \ {c}) \cup {[c EXCEPT !.status = "running"]}
    /\ calls' = Append(calls, BodyCall(c.execution_id, c.step, c.task, c.input))
    /\ UNCHANGED <<flowVars, taskVars, heapVars, raised, runs, previous, input_data, inputs, pc, step_number, data, context,
                   step_context, frame, gather_exc, result, error>>

\* A sibling's body returns.
CoroutineReturns(c) ==
    /\ c.status = "running"
    /\ ~BodyRaises(c.task, c.input)
    /\ coros' = (coros \ {c}) \cup
                   {[c EXCEPT !.status = "done", !.result = BodyOutput(c.task, c.input)]}
    /\ UNCHANGED <<flowVars, taskVars, heapVars, raised, runs, previous, input_data, inputs, pc, step_number, data, context,
                   step_context, frame, gather_exc, calls, result, error>>

\* A sibling's body raises: gather sets the first exception of its children
\* on the future the run awaits, and cancels nothing.
CoroutineRaises(c) ==
    /\ c.status = "running"
    /\ BodyRaises(c.task, c.input)
    /\ coros' = (coros \ {c}) \cup
                   {[c EXCEPT !.status = "failed",
                              !.exception = Exc(c.task.execute, c.input)]}
    /\ gather_exc' = IF IsAwaited(c) /\ gather_exc = None
                     THEN Exc(c.task.execute, c.input)
                     ELSE gather_exc
    /\ UNCHANGED <<flowVars, taskVars, heapVars, raised, runs, previous, input_data, inputs, pc, step_number, data, context,
                   step_context, frame, calls, result, error>>

\* OrganizeResults with an entry already made for an id kept: the result of
\* the first task declared with the id.
OrganizeResults_KeepsFirst(tasks, results, n) ==
    [id \in {tasks[i].id : i \in 1..n} |->
        results[CHOOSE i \in 1..n :
                   tasks[i].id = id /\ \A j \in 1..n : tasks[j].id = id => i <= j]]

\* "for task, result in zip(tasks, results): organized_results[task.id] = result"
\* over the first n tasks.
RECURSIVE OrganizeResults(_, _, _)
OrganizeResults(tasks, results, n) ==
    IF n = 0 THEN <<>>
    ELSE DictSet(OrganizeResults(tasks, results, n - 1), tasks[n].id, results[n])

\* GatherResults with the list in reverse order, not in the order of the tasks.
GatherResults_Reversed(cs, n) ==
    [i \in 1..n |-> (CHOOSE c \in cs : c.index = n + 1 - i).result]

\* gather's result list: the siblings' results in the order of the tasks.
GatherResults(cs, n) ==
    [i \in 1..n |-> (CHOOSE c \in cs : c.index = i).result]

\* GatherDone as soon as one child is done.
GatherDone_FirstCompleted(cs) == \E c \in cs : c.status = "done"

\* GatherDone as soon as every child has been started.
GatherDone_AllStarted(cs) == \A c \in cs : c.status # "pending"

\* Whether gather's future has a result: every child is done.
GatherDone(cs) == \A c \in cs : c.status = "done"

\* gather returns: _execute_parallel organizes the results by task id and
\* returns them.
GatherReturns ==
    /\ pc = "gather"
    /\ GatherDone(Awaited)
    /\ LET tasks == _tasks[step_number].tasks
           results == GatherResults(Awaited, Len(tasks))
       IN  NodeReturns(_tasks[step_number],
                       OrganizeResults(tasks, results, Len(tasks)), calls)
    /\ coros' = {c \in coros : c \notin Awaited \/ c.status \in {"pending", "running"}}
    /\ UNCHANGED <<flowVars, taskVars, heapVars, raised, runs, previous, input_data, inputs, step_number, step_context,
                   gather_exc, result>>

\* GatherRaises with the children still scheduled cancelled.
GatherRaises_Cancels ==
    /\ pc = "gather"
    /\ gather_exc # None
    /\ RunRaises(gather_exc, calls)
    /\ coros' = {c \in coros : c \notin Awaited \/ c.status \in {"done", "failed"}}
    /\ UNCHANGED <<flowVars, taskVars, heapVars, raised, runs, previous, input_data, inputs, step_number, step_context,
                   gather_exc, result>>

\* gather raises the first exception of its children into _execute_parallel,
\* which lets it leave run.  The other children stay scheduled.
GatherRaises ==
    /\ pc = "gather"
    /\ gather_exc # None
    /\ RunRaises(gather_exc, calls)
    /\ UNCHANGED <<flowVars, taskVars, heapVars, raised, runs, previous, input_data, inputs, step_number, step_context, coros,
                   gather_exc, result>>

\* run's "return data" after the last node
RunReturns ==
    /\ pc = "for"
    /\ step_number = Len(_tasks)
    /\ pc' = "done"
    /\ result' = data
    /\ UNCHANGED <<flowVars, taskVars, heapVars, raised, runs, previous, input_data, inputs, step_number, data, context,
                   step_context, frame, coros, gather_exc, calls, error>>

\* StartExecution with the root context kept from one execution to the next
\* instead of constructed anew.
StartExecution_SharedContext(input_data_arg) ==
    /\ runs' = runs + 1
    /\ context' = IF context = None
                  THEN ExecutionContext(FlowId, runs + 1, NoneStr, 0, 1,
                                        OrEmptyDict(FlowMetadata, metadata))
                  ELSE [context EXCEPT !.execution_id = runs + 1]
    /\ input_data' = input_data_arg
    /\ inputs' = <<>>
    /\ data' = input_data_arg
    /\ step_number' = 0
    /\ pc' = "for"
    /\ step_context' = None
    /\ frame' = NoFrame
    /\ coros' = {c \in coros : c.status \in {"pending", "running"}}
    /\ gather_exc' = None
    /\ calls' = <<>>
    /\ result' = None
    /\ error' = None
    /\ raised' = None
    /\ UNCHANGED <<flowVars, taskVars, heapVars>>

\* ExecutionEngine.run up to its for loop: a fresh root context, the input as
\* data.  Coroutines of an earlier gather that are still scheduled stay so.
StartExecution(input_data_arg) ==
    /\ runs' = runs + 1
    /\ context' = ExecutionContext(FlowId, runs + 1, NoneStr, 0, 1,
                                   OrEmptyDict(FlowMetadata, metadata))
    /\ input_data' = input_data_arg
    /\ inputs' = <<>>
    /\ data' = input_data_arg
    /\ step_number' = 0
    /\ pc' = "for"
    /\ step_context' = None
    /\ frame' = NoFrame
    /\ coros' = {c \in coros : c.status \in {"pending", "running"}}
    /\ gather_exc' = None
    /\ calls' = <<>>
    /\ result' = None
    /\ error' = None
    /\ raised' = None
    /\ UNCHANGED <<flowVars, taskVars, heapVars>>

\* run without the check of _registered.
run_Unchecked(input_data_arg) ==
    /\ CallerMayCall
    /\ runs < MaxRuns
    /\ StartExecution(input_data_arg)
    /\ previous' = None

\* Flow.run: what ExecutionEngine.run returns or raises is what it returns
\* or raises.
run(input_data_arg) ==
    /\ CallerMayCall
    /\ IF ~_registered THEN Raise(RuntimeError("Flow must be registered before running"))
       ELSE /\ runs < MaxRuns
            /\ StartExecution(input_data_arg)
            /\ previous' = None

\* The caller, its MaxRuns runs made and the last one over, runs the flow
\* once more and keeps what the last run was given and how it ended.
rerun(input_data_arg) ==
    /\ _registered
    /\ pc \in {"done", "failed"}
    /\ runs = MaxRuns
    /\ StartExecution(input_data_arg)
    /\ previous' = [input |-> input_data, pc |-> pc, result |-> result, error |-> error]

\* --------------------------------------------------------- Task(...)
\* Values passed as input_schema and output_schema: two BaseModel subclasses,
\* a class that is not one, and None.
SchemaArgs == {"InModel", "OutModel", "dict", NoneStr}
IsBaseModelClass(schema) == schema \in {"InModel", "OutModel"}

\* Values passed as execute: the bodies, a string, and None.
ExecuteArgs == {"add5", "dbl", "flaky", "inc", "not a function", NoneStr}
callable(execute) == execute \in {"add5", "dbl", "flaky", "inc"}

\* Values passed as id and as description: None, the empty string, strings.
IdArgs == {NoneStr, "", "A", "B"}
DescriptionArgs == {NoneStr, "", "adds five"}

\* Values of f"task_{uuid.uuid4().hex[:8]}"
GeneratedIds == {"task_1f0c9a2e", "task_7b3d5e80"}

\* Python's truth value of an argument: None and "" are false.
Truthy(v) == v # NoneStr /\ v # ""

WaterError(message) == [type |-> "WaterError", message |-> message]

\* Task.__init__ raises: no Task reaches the caller.
TaskRaise(exc) ==
    /\ created' = None
    /\ create_raised' = exc

\* Task.__init__ returns: the caller has the Task.
TaskReturn(self) ==
    /\ created' = self
    /\ create_raised' = None

\* Task.__init__ without the check of output_schema.
Task_OutputUnchecked(input_schema, output_schema, execute, id, description) ==
    /\ \E generated \in GeneratedIds :
          LET self_id == IF Truthy(id) THEN id ELSE generated
              self_description == IF Truthy(description) THEN description
                                  ELSE "Task " \o self_id
          IN  IF ~(Truthy(input_schema) /\ IsBaseModelClass(input_schema))
              THEN TaskRaise(WaterError("input_schema must be a Pydantic BaseModel class"))
              ELSE IF ~(Truthy(execute) /\ callable(execute))
              THEN TaskRaise(WaterError("Task must have a callable execute function"))
              ELSE TaskReturn([id |-> self_id, description |-> self_description,
                               input_schema |-> input_schema,
                               output_schema |-> output_schema, execute |-> execute])
    /\ UNCHANGED <<flowVars, raised, runVars, heapVars>>

\* Task.__init__: the id and the description are resolved, then the schemas
\* and execute are validated in this order.
Task(input_schema, output_schema, execute, id, description) ==
    /\ \E generated \in GeneratedIds :
          LET self_id == IF Truthy(id) THEN id ELSE generated
              self_description == IF Truthy(description) THEN description
                                  ELSE "Task " \o self_id
          IN  IF ~(Truthy(input_schema) /\ IsBaseModelClass(input_schema))
              THEN TaskRaise(WaterError("input_schema must be a Pydantic BaseModel class"))
              ELSE IF ~(Truthy(output_schema) /\ IsBaseModelClass(output_schema))
              THEN TaskRaise(WaterError("output_schema must be a Pydantic BaseModel class"))
              ELSE IF ~(Truthy(execute) /\ callable(execute))
              THEN TaskRaise(WaterError("Task must have a callable execute function"))
              ELSE TaskReturn([id |-> self_id, description |-> self_description,
                               input_schema |-> input_schema,
                               output_schema |-> output_schema, execute |-> execute])
    /\ UNCHANGED <<flowVars, raised, runVars, heapVars>>

\* create_task: every parameter defaults to None and is passed on to Task.
create_task(id, description, input_schema, output_schema, execute) ==
    Task(input_schema, output_schema, execute, id, description)

\* ------------------------------------------- ExecutionContext objects
\* Arguments of the calls made on the contexts: (task_id, step_number) of
\* create_child_context, where 0 is also the omitted step_number;
\* (task_id, output) of add_task_output; the task of _execute_task.
ChildArgs == { <<"A", 0>> }
RecordArgs == { <<"A", Scalar(1)>>, <<"A", Scalar(2)>>, <<"B", Scalar(1)>> }
EnterArgs == { dbl }

\* The values datetime.utcnow() can return next: time does not go back.
Times == now..MaxClock

\* The contexts there are, by their position in ctxs.
Contexts == 1..Len(ctxs)

\* create_child_context with the child given the parent's dict and list
\* themselves, not copies of them.
ctx_create_child_context_Shared(p, task_id, number, attempt_number) ==
    /\ Len(ctxs) < MaxContexts
    /\ \E t \in Times :
          LET self == ctxs[p]
          IN  /\ ctxs' = Append(ctxs,
                     ContextObject(self.flow_id, self.execution_id, task_id,
                                   IF number # 0 THEN number
                                   ELSE self.step_number + 1,
                                   attempt_number, self.execution_start_time, t,
                                   self._task_outputs, self._step_history))
              /\ heap' = heap
              /\ now' = t
    /\ UNCHANGED <<flowVars, raised, runVars, taskVars, copies>>

\* create_child_context without the execution id handed on: __init__ then
\* generates one for the child, as it does for a root context.
ctx_create_child_context_FreshId(p, task_id, number, attempt_number) ==
    /\ Len(ctxs) < MaxContexts
    /\ \E t \in Times :
          LET self == ctxs[p]
          IN  /\ ctxs' = Append(ctxs,
                     ContextObject(self.flow_id, Len(ctxs) + 1, task_id,
                                   IF number # 0 THEN number
                                   ELSE self.step_number + 1,
                                   attempt_number, self.execution_start_time, t,
                                   Len(heap) + 1, Len(heap) + 2))
              /\ heap' = heap \o <<heap[self._task_outputs], heap[self._step_history]>>
              /\ now' = t
    /\ UNCHANGED <<flowVars, raised, runVars, taskVars, copies>>

\* ExecutionContext.create_child_context on the object ctxs[p]: the child
\* is constructed at the time t the clock shows, is given copies of the
\* parent's dict and list, at two new addresses, and the parent's
\* execution_start_time.
ctx_create_child_context(p, task_id, number, attempt_number) ==
    /\ Len(ctxs) < MaxContexts
    /\ \E t \in Times :
          LET self == ctxs[p]
          IN  /\ ctxs' = Append(ctxs,
                     ContextObject(self.flow_id, self.execution_id, task_id,
                                   IF number # 0 THEN number
                                   ELSE self.step_number + 1,
                                   attempt_number, self.execution_start_time, t,
                                   Len(heap) + 1, Len(heap) + 2))
              /\ heap' = heap \o <<heap[self._task_outputs], heap[self._step_history]>>
              /\ now' = t
    /\ UNCHANGED <<flowVars, raised, runVars, taskVars, copies>>

\* The record add_task_output appends (the timestamp is left out).
StepInfo(self, task_id, output) ==
    [ step_number    |-> self.step_number,
      task_id        |-> task_id,
      output         |-> output,
      attempt_number |-> self.attempt_number ]

\* add_task_output with an output already recorded for the id kept.
ctx_add_task_output_KeepsFirst(c, task_id, output) ==
    /\ Len(heap[ctxs[c]._step_history]) < MaxRecords
    /\ LET self == ctxs[c]
       IN  heap' = [heap EXCEPT
                      ![self._task_outputs] =
                          IF task_id \in DOMAIN @ THEN @ ELSE DictSet(@, task_id, output),
                      ![self._step_history] = Append(@, StepInfo(self, task_id, output))]
    /\ UNCHANGED <<ctxs, now, copies>>
    /\ UNCHANGED <<flowVars, raised, runVars, taskVars>>

\* ExecutionContext.add_task_output on the object ctxs[c]: the dict and the
\* list the object refers to are written in place.
ctx_add_task_output(c, task_id, output) ==
    /\ Len(heap[ctxs[c]._step_history]) < MaxRecords
    /\ LET self == ctxs[c]
       IN  heap' = [heap EXCEPT
                      ![self._task_outputs] = DictSet(@, task_id, output),
                      ![self._step_history] = Append(@, StepInfo(self, task_id, output))]
    /\ UNCHANGED <<ctxs, now, copies>>
    /\ UNCHANGED <<flowVars, raised, runVars, taskVars>>

\* _execute_task's two assignments to the context it is handed, ctxs[c]:
\* "context.task_id = task.id" and "context.step_start_time = utcnow()".
ctx_execute_task(c, task) ==
    /\ \E t \in Times :
          /\ ctxs' = [ctxs EXCEPT ![c].task_id = task.id, ![c].step_start_time = t]
          /\ now' = t
    /\ ctxs' # ctxs
    /\ UNCHANGED <<heap, copies>>
    /\ UNCHANGED <<flowVars, raised, runVars, taskVars>>

\* What the caller writes into the objects it was returned: a key and a
\* value for a mapping, a record for a list.
CallerKeys == {"A", "Z"}
CallerValue == Scalar(9)
CallerRecord ==
    [ step_number |-> 9, task_id |-> "Z", output |-> CallerValue, attempt_number |-> 1 ]

\* The objects returned to the caller, by their position in copies.
Copies == 1..Len(copies)

\* get_all_task_outputs returning the dict of the object itself.
ctx_get_all_task_outputs_Aliased(c) ==
    /\ Len(copies) < MaxCopies
    /\ copies' = Append(copies, [kind |-> "dict", of |-> c, at |-> ctxs[c]._task_outputs])
    /\ UNCHANGED <<ctxs, heap, now>>
    /\ UNCHANGED <<flowVars, raised, runVars, taskVars>>

\* ExecutionContext.get_all_task_outputs on the object ctxs[c]: a copy of
\* its dict, at a new address, is returned.
ctx_get_all_task_outputs(c) ==
    /\ Len(copies) < MaxCopies
    /\ heap' = Append(heap, heap[ctxs[c]._task_outputs])
    /\ copies' = Append(copies, [kind |-> "dict", of |-> c, at |-> Len(heap) + 1])
    /\ UNCHANGED <<ctxs, now>>
    /\ UNCHANGED <<flowVars, raised, runVars, taskVars>>

\* ExecutionContext.get_step_history on the object ctxs[c]: a copy of its
\* list, at a new address, is returned.
ctx_get_step_history(c) ==
    /\ Len(copies) < MaxCopies
    /\ heap' = Append(heap, heap[ctxs[c]._step_history])
    /\ copies' = Append(copies, [kind |-> "list", of |-> c, at |-> Len(heap) + 1])
    /\ UNCHANGED <<ctxs, now>>
    /\ UNCHANGED <<flowVars, raised, runVars, taskVars>>

\* The caller writes the mapping it was returned: "m[key] = value", which
\* adds or replaces an entry, or "del m[key]".
caller_writes_mapping(v) ==
    /\ copies[v].kind = "dict"
    /\ LET m == heap[copies[v].at]
       IN  \/ \E key \in CallerKeys :
                 heap' = [heap EXCEPT ![copies[v].at] = DictSet(m, key, CallerValue)]
           \/ \E key \in DOMAIN m :
                 heap' = [heap EXCEPT ![copies[v].at] = [k \in DOMAIN m \ {key} |-> m[k]]]
    /\ heap' # heap
    /\ UNCHANGED <<ctxs, now, copies>>
    /\ UNCHANGED <<flowVars, raised, runVars, taskVars>>

\* The caller writes the list it was returned: "l.append(record)",
\* "l.pop()" or "l[0] = record".
caller_writes_list(v) ==
    /\ copies[v].kind = "list"
    /\ LET l == heap[copies[v].at]
       IN  \/ /\ Len(l) < MaxRecords
              /\ heap' = [heap EXCEPT ![copies[v].at] = Append(l, CallerRecord)]
           \/ /\ l # <<>>
              /\ heap' = [heap EXCEPT ![copies[v].at] = SubSeq(l, 1, Len(l) - 1)]
           \/ /\ l # <<>>
              /\ heap' = [heap EXCEPT ![copies[v].at] = [l EXCEPT ![1] = CallerRecord]]
    /\ heap' # heap
    /\ UNCHANGED <<ctxs, now, copies>>
    /\ UNCHANGED <<flowVars, raised, runVars, taskVars>>

\* ------------------------------------------------------- the specification
Next ==
    \/ \E task \in ThenArgs : then(task)
    \/ \E tasks \in ParallelArgs : parallel(tasks)
    \/ \E branches \in BranchArgs : branch(branches)
    \/ \E args \in LoopArgs : loop(args[1], args[2], args[3])
    \/ register
    \/ \E x \in RunInputs : run(x)
    \/ ExecuteSequential
    \/ ExecuteParallel
    \/ ExecuteBranch
    \/ ExecuteLoop
    \/ TaskRaises
    \/ SequentialReturns
    \/ BranchReturns
    \/ IterationReturns
    \/ \E c \in coros : CoroutineStarts(c)
    \/ \E c \in coros : CoroutineReturns(c)
    \/ \E c \in coros : CoroutineRaises(c)
    \/ GatherReturns
    \/ GatherRaises
    \/ RunReturns

Spec == Init /\ [][Next]_vars

\* A step of the coroutine that runs ExecutionEngine.run: it enters the next
\* node, or a body or gather it awaits returns or raises, or it returns.
RunStep ==
    \/ ExecuteSequential
    \/ ExecuteParallel
    \/ ExecuteBranch
    \/ ExecuteLoop
    \/ TaskRaises
    \/ SequentialReturns
    \/ BranchReturns
    \/ IterationReturns
    \/ GatherReturns
    \/ GatherRaises
    \/ RunReturns

\* A step of a sibling coroutine of a gather.
SiblingStep ==
    \E c \in coros : CoroutineStarts(c) \/ CoroutineReturns(c) \/ CoroutineRaises(c)

\* The event loop runs every coroutine that is ready, and every body and
\* predicate invoked terminates: a step of the run that stays possible is
\* taken, and so is a step of the siblings.
FairSpec == Spec /\ WF_vars(RunStep) /\ WF_vars(SiblingStep)

\* The flow built, registered and run while the caller also sets metadata.
NextMetadata ==
    \/ Next
    \/ \E args \in MetadataArgs : set_metadata(args[1], args[2])

MetadataSpec == Init /\ [][NextMetadata]_vars

\* The flow built, registered and run while metadata is set before, after
\* and during the run.
NextLiveMetadata ==
    \/ NextMetadata
    \/ \E args \in LiveMetadataArgs : set_metadata_during_run(args[1], args[2])

LiveMetadataSpec == Init /\ [][NextLiveMetadata]_vars

\* The flow built and registered while the caller sets several keys of its
\* metadata, before and after the registration.
NextAnnotate ==
    \/ \E task \in ThenArgs : then(task)
    \/ \E tasks \in ParallelArgs : parallel(tasks)
    \/ \E branches \in BranchArgs : branch(branches)
    \/ \E args \in LoopArgs : loop(args[1], args[2], args[3])
    \/ register
    \/ \E args \in KeyArgs : set_metadata(args[1], args[2])

AnnotateSpec == Init /\ [][NextAnnotate]_vars

\* The flow built, registered and run, and then run once more.
NextRerun ==
    \/ Next
    \/ \E x \in RunInputs : rerun(x)

RerunSpec == Init /\ [][NextRerun]_vars

\* The flow built by the builder and by hand, registered and run.
NextGraph ==
    \/ Next
    \/ \E node \in RawNodes : append_raw(node)
    \/ ExecuteUnknown

GraphSpec == Init /\ [][NextGraph]_vars

\* Contexts forked from one another, written and handed to tasks in any
\* order.
NextContext ==
    \/ \E p \in Contexts, args \in ChildArgs :
          ctx_create_child_context(p, args[1], args[2], 1)
    \/ \E c \in Contexts, args \in RecordArgs :
          ctx_add_task_output(c, args[1], args[2])
    \/ \E c \in Contexts, task \in EnterArgs : ctx_execute_task(c, task)

ContextSpec == Init /\ [][NextContext]_vars

\* A context written, read through get_all_task_outputs and
\* get_step_history, and the objects these return written by the caller.
NextCopy ==
    \/ \E c \in Contexts, args \in RecordArgs :
          ctx_add_task_output(c, args[1], args[2])
    \/ \E c \in Contexts : ctx_get_all_task_outputs(c)
    \/ \E c \in Contexts : ctx_get_step_history(c)
    \/ \E v \in Copies : caller_writes_mapping(v)
    \/ \E v \in Copies : caller_writes_list(v)

CopySpec == Init /\ [][NextCopy]_vars

\* Tasks constructed one after another, by the class and by the factory,
\* from every combination of the arguments.
NextTask ==
    \/ \E input_schema \in SchemaArgs, output_schema \in SchemaArgs,
          execute \in ExecuteArgs, id \in IdArgs, description \in DescriptionArgs :
          Task(input_schema, output_schema, execute, id, description)
    \/ \E id \in IdArgs, description \in DescriptionArgs,
          input_schema \in SchemaArgs, output_schema \in SchemaArgs,
          execute \in ExecuteArgs :
          create_task(id, description, input_schema, output_schema, execute)

TaskSpec == Init /\ [][NextTask]_vars

\* ------------------------------------------------------------ observations
\* The calls made at top-level step k of the latest execution, in order.
StepCalls(k) ==
    SelectSeq(calls, LAMBDA e : e.execution_id = runs /\ e.step_number = k)

\* Node k of the latest execution has been entered / has returned its output.
NodeStarted(k) == k \in 1..Len(inputs)
NodeCompleted(k) ==
    NodeStarted(k) /\ (k < step_number \/ (k = step_number /\ pc \in {"for", "done"}))

\* The output node k returned: what run assigned to data.
NodeOutput(k) == IF k < Len(inputs) THEN inputs[k + 1] ELSE data

\* ------------------------------------------------------------------ claims
\* t_k(...t_1(x)) for the tasks of the first k nodes of a Sequential chain.
RECURSIVE ChainOutput(_, _, _)
ChainOutput(nodes, x, k) ==
    IF k = 0 THEN x ELSE BodyOutput(nodes[k].task, ChainOutput(nodes, x, k - 1))

AllSequential == \A i \in 1..Len(_tasks) : _tasks[i].type = "sequential"

\* C1: in a run of a flow made of Sequential nodes only, the bodies invoked
\* are those of t1, t2, ... in declaration order, each once, the first on the
\* run's input and every later one on the previous body's output; no
\* predicate is evaluated; and a run that returns has invoked all N bodies
\* and returns tN(...t1(X)).
C1_SequentialChain ==
    (runs >= 1 /\ AllSequential) =>
        /\ Len(calls) <= Len(_tasks)
        /\ \A i \in 1..Len(calls) :
              calls[i] = BodyCall(runs, i, _tasks[i].task,
                                  ChainOutput(_tasks, input_data, i - 1))
        /\ pc = "done" =>
              /\ Len(calls) = Len(_tasks)
              /\ result = ChainOutput(_tasks, input_data, Len(_tasks))
        /\ pc = "failed" =>
              /\ calls # <<>>
              /\ BodyRaises(calls[Len(calls)].task, calls[Len(calls)].input)

\* {value: 2} through +5 then *2 has returned {value: 14}.
C1_Witness ==
    /\ pc = "done"
    /\ input_data = Scalar(2)
    /\ _tasks = <<SequentialNode(add5), SequentialNode(dbl)>>
    /\ Len(calls) = 2
    /\ result = Scalar(14)

\* The ids of a list of tasks; whether tasks[i] alone has its id.
TaskIds(tasks) == {tasks[i].id : i \in 1..Len(tasks)}
UniqueId(tasks, i) == \A j \in 1..Len(tasks) : tasks[j].id = tasks[i].id => j = i

\* C2: when a Parallel node has returned, its result is a mapping whose key
\* set is exactly the ids of the node's tasks and whose value at the id of
\* each task is that task's output on the node's input, whatever the order in
\* which the siblings finished; the mapping is the data the next node is
\* handed and the input of the first call made for it.
C2_ParallelResult ==
    \A k \in 1..Len(inputs) :
        (_tasks[k].type = "parallel" /\ NodeCompleted(k)) =>
            LET tasks == _tasks[k].tasks
                out == NodeOutput(k)
            IN  /\ DOMAIN out = TaskIds(tasks)
                /\ \A i \in 1..Len(tasks) :
                      UniqueId(tasks, i) => out[tasks[i].id] = BodyOutput(tasks[i], inputs[k])
                /\ StepCalls(k + 1) # <<>> => StepCalls(k + 1)[1].input = out

\* Parallel{add5, dbl, flaky} on {value: 2} has returned {A: 7, B: 4, C: 3}
\* and the next node has been handed it.
C2_Witness ==
    /\ Len(inputs) = 2
    /\ _tasks[1] = ParallelNode(<<add5, dbl, flaky>>)
    /\ inputs[1] = Scalar(2)
    /\ inputs[2] = [A |-> Scalar(7), B |-> Scalar(4), C |-> Scalar(3)]
    /\ StepCalls(2) # <<>>

\* A condition returns true on x.
Holds(condition, x) == ~CondRaises(condition, x) /\ CondValue(condition, x)

\* The first pair of branches whose predicate is true on x, when the
\* predicates before it return false; 0 when there is none.
FirstTrue(branches, x) ==
    LET T == {i \in 1..Len(branches) :
                /\ Holds(branches[i].condition, x)
                /\ \A j \in 1..(i - 1) : ~CondRaises(branches[j].condition, x)
                /\ \A j \in 1..(i - 1) : ~CondValue(branches[j].condition, x)}
    IN  IF T = {} THEN 0 ELSE CHOOSE i \in T : TRUE

\* C3: for a Branch node whose first true predicate is the j-th, the calls
\* made for the node are the predicates 1..j in declaration order, each on
\* the node's input, followed by one invocation of the j-th task's body on
\* that input and nothing else (no later predicate, no other body, also when
\* later predicates would be true); when the node returns, its result is the
\* j-th task's output.
C3_BranchFirstMatch ==
    \A k \in 1..Len(inputs) :
        (_tasks[k].type = "branch" /\ FirstTrue(_tasks[k].branches, inputs[k]) # 0) =>
            LET branches == _tasks[k].branches
                x == inputs[k]
                j == FirstTrue(branches, x)
                made == StepCalls(k)
            IN  /\ Len(made) = j + 1
                /\ \A i \in 1..j : made[i] = CondCall(runs, k, branches[i].condition, x)
                /\ made[j + 1] = BodyCall(runs, k, branches[j].task, x)
                /\ NodeCompleted(k) => NodeOutput(k) = BodyOutput(branches[j].task, x)
                /\ ~BodyRaises(branches[j].task, x) => ~(pc = "failed" /\ step_number = k)

\* A branch whose first and second predicates are both true on {value: 2}
\* has run the first task only and returned its output.
C3_Witness ==
    /\ NodeCompleted(1)
    /\ _tasks[1].type = "branch"
    /\ Len(_tasks[1].branches) = 3
    /\ inputs[1] = Scalar(2)
    /\ Holds(_tasks[1].branches[1].condition, inputs[1])
    /\ Holds(_tasks[1].branches[2].condition, inputs[1])
    /\ Len(StepCalls(1)) = 2
    /\ NodeOutput(1) = Scalar(7)

\* C4: for a Branch node none of whose predicates is true on its input (each
\* returns false), every predicate is evaluated once, in order, no body is
\* invoked, the node returns at once without an error, and its result is the
\* input itself.
C4_BranchNoMatch ==
    \A k \in 1..Len(inputs) :
        (/\ _tasks[k].type = "branch"
         /\ \A i \in 1..Len(_tasks[k].branches) :
               /\ ~CondRaises(_tasks[k].branches[i].condition, inputs[k])
               /\ ~CondValue(_tasks[k].branches[i].condition, inputs[k])) =>
            /\ StepCalls(k) = [i \in 1..Len(_tasks[k].branches) |->
                                 CondCall(runs, k, _tasks[k].branches[i].condition, inputs[k])]
            /\ NodeCompleted(k)
            /\ NodeOutput(k) = inputs[k]

\* A two-pair branch has found no match on {value: 4}, as the first node of
\* the flow, and the second node has been handed {value: 4}.
C4_Witness ==
    /\ Len(inputs) = 2
    /\ _tasks[1].type = "branch"
    /\ Len(StepCalls(1)) = 2
    /\ \A i \in 1..2 : StepCalls(1)[i].kind = "cond"
    /\ inputs[1] = Scalar(4)
    /\ inputs[2] = Scalar(4)

\* C5: for a Loop node whose predicate is false on the node's input, the only
\* call made for the node is that one evaluation of the predicate: the body is
\* never invoked, and the node returns its input.
C5_LoopFalseAtEntry ==
    \A k \in 1..Len(inputs) :
        (/\ _tasks[k].type = "loop"
         /\ ~CondRaises(_tasks[k].condition, inputs[k])
         /\ ~CondValue(_tasks[k].condition, inputs[k])) =>
            /\ StepCalls(k) = <<CondCall(runs, k, _tasks[k].condition, inputs[k])>>
            /\ NodeCompleted(k)
            /\ NodeOutput(k) = inputs[k]

\* A loop with room for iterations whose predicate is false on {value: 4} has
\* returned {value: 4} as the run's result.
C5_Witness ==
    /\ pc = "done"
    /\ _tasks = <<LoopNode("lt4", add5, DEFAULT_MAX_ITERATIONS)>>
    /\ input_data = Scalar(4)
    /\ result = Scalar(4)

\* The body calls among a sequence of calls.
Bodies(made) == SelectSeq(made, LAMBDA e : e.kind = "body")

\* task applied n times to x.
RECURSIVE Iterate(_, _, _)
Iterate(task, x, n) == IF n = 0 THEN x ELSE BodyOutput(task, Iterate(task, x, n - 1))

\* The node's predicate holds on x and on the next n values the task
\* produces from x, none of which the task fails to produce.
RECURSIVE HoldsThroughout(_, _, _)
HoldsThroughout(node, x, n) ==
    /\ Holds(node.condition, x)
    /\ \/ n = 0
       \/ /\ ~BodyRaises(node.task, x)
          /\ HoldsThroughout(node, BodyOutput(node.task, x), n - 1)

\* C6: for a Loop node with max_iterations = M >= 1 whose predicate holds on
\* the node's input and on each of the M values the task produces from it,
\* the i-th body call is made on the (i-1)-fold output, at most M body calls
\* are made, the run does not fail at the node, and when the node returns
\* exactly M body calls have been made and the result is the M-th output.
C6_LoopCap ==
    \A k \in 1..Len(inputs) :
        (/\ _tasks[k].type = "loop"
         /\ _tasks[k].max_iterations >= 1
         /\ HoldsThroughout(_tasks[k], inputs[k], _tasks[k].max_iterations)) =>
            LET node == _tasks[k]
                made == Bodies(StepCalls(k))
            IN  /\ Len(made) <= node.max_iterations
                /\ \A i \in 1..Len(made) :
                      made[i] = BodyCall(runs, k, node.task, Iterate(node.task, inputs[k], i - 1))
                /\ ~(pc = "failed" /\ step_number = k)
                /\ NodeCompleted(k) =>
                      /\ Len(made) = node.max_iterations
                      /\ NodeOutput(k) = Iterate(node.task, inputs[k], node.max_iterations)

\* loop(always, add5, max_iterations = 2) on {value: 2} has returned
\* {value: 12} after two body calls.
C6_Witness ==
    /\ NodeCompleted(1)
    /\ _tasks[1] = LoopNode("always", add5, 2)
    /\ inputs[1] = Scalar(2)
    /\ Len(Bodies(StepCalls(1))) = 2
    /\ NodeOutput(1) = Scalar(12)
    /\ error = None

\* The calls of the latest execution, in order.
RunCalls == SelectSeq(calls, LAMBDA e : e.execution_id = runs)

\* The siblings of the latest execution still in flight: handed to gather and
\* not yet returned, started or not.
InFlight == {c \in coros : c.execution_id = runs /\ c.status \in {"pending", "running"}}

\* C7: the calls of a run are made in node order; while a sibling of node k
\* is in flight no call has been made for a later node and no body of another
\* kind of node is running; and while the body of a Sequential, Branch or
\* Loop node is running no sibling of any node of the run is in flight.
C7_NoOverlap ==
    /\ \A p, q \in 1..Len(RunCalls) :
          p < q => RunCalls[p].step_number <= RunCalls[q].step_number
    /\ \A c \in InFlight :
          /\ \A p \in 1..Len(RunCalls) : RunCalls[p].step_number <= c.step
          /\ c.step = step_number
          /\ pc # "task"
    /\ pc = "task" =>
          \A p \in 1..Len(RunCalls) : RunCalls[p].step_number <= step_number

\* The body of the second node is running after a three-task Parallel node
\* has returned.
C7_Witness ==
    /\ pc = "task"
    /\ step_number = 2
    /\ _tasks[1].type = "parallel"
    /\ Len(_tasks[1].tasks) = 3
    /\ Len(RunCalls) = 4

\* C8: when a Parallel node has returned, every one of its siblings has been
\* started, on the node's input and in declaration order, and none of them
\* is still in flight: each has returned.
C8_ParallelBarrier ==
    \A k \in 1..Len(inputs) :
        (_tasks[k].type = "parallel" /\ NodeCompleted(k)) =>
            /\ StepCalls(k) = [i \in 1..Len(_tasks[k].tasks) |->
                                 BodyCall(runs, k, _tasks[k].tasks[i], inputs[k])]
            /\ \A c \in coros :
                  (c.execution_id = runs /\ c.step = k) => c.status = "done"

\* A three-task Parallel node has returned, the run standing between it and
\* the next node.
C8_Witness ==
    /\ pc = "for"
    /\ step_number = 1
    /\ _tasks[1].type = "parallel"
    /\ Len(_tasks[1].tasks) = 3
    /\ Len(StepCalls(1)) = 3
    /\ DOMAIN data = {"A", "B", "C"}

\* C9: once the body of a Sequential, Branch or Loop node has been invoked
\* on an input on which it raises, it is the last call of the run (no retry,
\* no later predicate, iteration or node), the run has no result, and the
\* run is either still in that body or has failed with the body's exception.
C9_TaskErrorPropagates ==
    \A p \in 1..Len(RunCalls) :
        LET e == RunCalls[p]
        IN  (/\ e.kind = "body"
             /\ _tasks[e.step_number].type # "parallel"
             /\ BodyRaises(e.task, e.input)) =>
                /\ p = Len(RunCalls)
                /\ result = None
                /\ \/ pc = "task" /\ frame.task = e.task /\ frame.input = e.input
                   \/ pc = "failed" /\ error = Exc(e.task.execute, e.input)

\* A Loop node's body has raised in a later iteration of the first node of a
\* two-node flow and the run has failed with its exception.
C9_Witness ==
    /\ pc = "failed"
    /\ Len(_tasks) = 2
    /\ step_number = 1
    /\ _tasks[1].type = "loop"
    /\ Len(Bodies(StepCalls(1))) >= 2
    /\ error.raised_by = "flaky"

\* The exceptions of the failed siblings of node k of the latest execution.
SiblingExceptions(k) ==
    {c.exception : c \in {o \in coros : o.execution_id = runs /\ o.step = k
                                         /\ o.status = "failed"}}

\* A step leaves every coroutine in flight scheduled: it is still there
\* afterwards, in flight or finished, with its task, input and context.
NothingCancelled ==
    \A c \in coros :
        c.status \in {"pending", "running"} =>
            \E o \in coros' :
                /\ o.execution_id = c.execution_id /\ o.step = c.step /\ o.index = c.index
                /\ o.task = c.task /\ o.input = c.input /\ o.context = c.context
                /\ o.status \in {"pending", "running", "done", "failed"}
                /\ c.status = "running" => o.status # "pending"

\* Once a sibling of node k of the latest execution has raised: the node
\* never returns and no later node is started, the run has no result, the
\* run can fail at once and when it has failed it has done so with the
\* exception of one of the siblings, and a peer whose body is running can
\* still return or raise.
ParallelFailure ==
    \A c \in coros :
        (c.execution_id = runs /\ c.status = "failed") =>
            /\ step_number = c.step
            /\ pc \in {"gather", "failed"}
            /\ \A p \in 1..Len(RunCalls) : RunCalls[p].step_number <= c.step
            /\ result = None
            /\ pc = "gather" => ENABLED GatherRaises
            /\ pc = "failed" => error \in SiblingExceptions(c.step)
            /\ \A o \in InFlight :
                  o.status = "running" => ENABLED (CoroutineReturns(o) \/ CoroutineRaises(o))

\* C10: a raising sibling fails the Parallel node and the run with its
\* exception, no later node is started, and no step - the failure of the run
\* included - cancels a sibling in flight, which can still finish.
C10_ParallelErrorNoCancel == []ParallelFailure /\ [][NothingCancelled]_vars

\* The run has failed with a sibling's exception while a peer's body is still
\* running and can return.
C10_Witness ==
    /\ pc = "failed"
    /\ error \in SiblingExceptions(step_number)
    /\ \E o \in InFlight : o.status = "running" /\ ENABLED CoroutineReturns(o)

\* A call of one of the four builder methods.
BuilderCall ==
    \/ \E task \in ThenArgs : then(task)
    \/ \E tasks \in ParallelArgs : parallel(tasks)
    \/ \E branches \in BranchArgs : branch(branches)
    \/ \E args \in LoopArgs : loop(args[1], args[2], args[3])

\* A step from a state in which the flow is registered leaves the node list
\* as it is, and when it is a builder call it raises.
FrozenStep ==
    _registered =>
        /\ _tasks' = _tasks
        /\ BuilderCall => (raised' # None /\ raised'.type = "RuntimeError")

\* C11: on a registered flow every call of then, parallel, branch or loop
\* raises, whatever its arguments, and from the moment the flow is
\* registered no step of any kind changes the node list.
C11_FrozenAfterRegister == [][FrozenStep]_vars

\* A builder call has been rejected on a registered flow that a further
\* node would fit.
C11_Witness ==
    /\ _registered
    /\ Len(_tasks) < MaxNodes
    /\ raised = RuntimeError("Cannot add tasks after registration")

\* C12: a registered flow has at least one node; on an empty node list
\* register() can only raise a ValueError and leave the flow unregistered
\* and empty.
C12_RegisterNeedsNode ==
    /\ _registered => Len(_tasks) >= 1
    /\ (_tasks = <<>> /\ CallerMayCall) =>
          /\ ENABLED register
          /\ ~ENABLED (register /\ ~(/\ raised' # None
                                     /\ raised'.type = "ValueError"
                                     /\ ~_registered'
                                     /\ _tasks' = <<>>))

\* register() has been rejected on an empty flow.
C12_Witness ==
    /\ _tasks = <<>>
    /\ ~_registered
    /\ raised = ValueError("Flow must have at least one task")

\* C13: an unregistered flow has no execution, no root context and no call
\* of a body or predicate behind it, and run() on it can only raise a
\* RuntimeError and leave the flow and all of that as they are; a run of a
\* registered flow that returns, returns the data ExecutionEngine.run holds
\* after its last node, the output of that node.
C13_RunNeedsRegister ==
    /\ ~_registered =>
          /\ runs = 0 /\ pc = "idle" /\ context = None /\ calls = <<>>
          /\ \A x \in RunInputs :
                /\ ENABLED run(x)
                /\ ~ENABLED (run(x) /\ ~(/\ raised' # None
                                         /\ raised'.type = "RuntimeError"
                                         /\ UNCHANGED <<flowVars, runVars>>))
    /\ pc = "done" =>
          /\ _registered
          /\ step_number = Len(_tasks)
          /\ result = NodeOutput(Len(_tasks))

\* run() has been rejected on an unregistered flow that has nodes to run.
C13_Witness ==
    /\ ~_registered
    /\ _tasks # <<>>
    /\ raised = RuntimeError("Flow must be registered before running")

\* Node k of the latest execution has just returned: run stands right after it.
JustCompleted(k) == k = step_number /\ NodeCompleted(k)

\* C14: when a Parallel node has just returned, the run's root context maps
\* the id of each of the node's tasks to that task's output on the node's
\* input; when a Branch node has just returned after a match, the root
\* context maps the id of the task executed to its output, and when the node
\* is the first of the run it holds no entry for any other id.
C14_ParentRecords ==
    \A k \in 1..Len(inputs) :
        JustCompleted(k) =>
            /\ _tasks[k].type = "parallel" =>
                  \A i \in 1..Len(_tasks[k].tasks) :
                      UniqueId(_tasks[k].tasks, i) =>
                          get_task_output(context, _tasks[k].tasks[i].id)
                              = BodyOutput(_tasks[k].tasks[i], inputs[k])
            /\ (_tasks[k].type = "branch" /\ FirstTrue(_tasks[k].branches, inputs[k]) # 0) =>
                  LET task == _tasks[k].branches[FirstTrue(_tasks[k].branches, inputs[k])].task
                  IN  /\ get_task_output(context, task.id) = BodyOutput(task, inputs[k])
                      /\ k = 1 => DOMAIN context.task_outputs = {task.id}

\* The tasks of a node.
TasksOf(node) ==
    CASE node.type = "parallel" -> {node.tasks[i] : i \in 1..Len(node.tasks)}
      [] node.type = "branch"   -> {node.branches[i].task : i \in 1..Len(node.branches)}
      [] OTHER                  -> {node.task}

\* The contexts handed to the bodies now running at top-level step k of the
\* latest execution.
RunningContexts(k) ==
    {frame.context : x \in {y \in {1} : pc = "task" /\ step_number = k}}
    \cup {c.context : c \in {o \in coros : /\ o.execution_id = runs
                                              /\ o.step = k
                                              /\ o.status = "running"}}

\* C15: through the context of a body running at top-level step k,
\* get_task_output(id) returns, for every task whose body was invoked at a
\* step before k, the output of the latest of these invocations of a task
\* with that id, and returns nothing for the id of a task of steps k and
\* later that is the id of no task of an earlier node.
C15_LookupEarlierSteps ==
    \A k \in 1..Len(inputs) :
        \A ctx \in RunningContexts(k) :
            LET earlier == SelectSeq(Bodies(RunCalls), LAMBDA e : e.step_number < k)
            IN  /\ \A p \in 1..Len(earlier) :
                      (\A q \in (p + 1)..Len(earlier) : earlier[q].task.id # earlier[p].task.id)
                          => get_task_output(ctx, earlier[p].task.id)
                                 = BodyOutput(earlier[p].task, earlier[p].input)
                /\ \A j \in k..Len(_tasks) :
                      \A t \in TasksOf(_tasks[j]) :
                          (\A i \in 1..(k - 1) : \A u \in TasksOf(_tasks[i]) : u.id # t.id)
                              => get_task_output(ctx, t.id) = None

\* The arguments that fail validation.
InvalidThen(task) == task = None
InvalidParallel(tasks) == tasks = <<>> \/ \E i \in 1..Len(tasks) : tasks[i] = None
InvalidBranch(branches) ==
    \/ branches = <<>>
    \/ \E i \in 1..Len(branches) :
          branches[i][2] = None \/ IsCoroutineFunction(branches[i][1])
InvalidLoop(condition, task) == task = None \/ IsCoroutineFunction(condition)

\* The call raises an error, a ValueError when the flow is not registered,
\* and leaves the flow and its runs as they are.
BuildError ==
    /\ raised' # None
    /\ raised'.type = (IF _registered THEN "RuntimeError" ELSE "ValueError")
    /\ _tasks' = _tasks
    /\ _registered' = _registered
    /\ UNCHANGED <<metadata, runVars>>

\* A node as the builder makes it when its arguments pass validation.
WellFormed(node) ==
    CASE node.type = "sequential" -> node.task # None
      [] node.type = "parallel" ->
            node.tasks # <<>> /\ \A i \in 1..Len(node.tasks) : node.tasks[i] # None
      [] node.type = "branch" ->
            /\ node.branches # <<>>
            /\ \A i \in 1..Len(node.branches) :
                  /\ node.branches[i].task # None
                  /\ ~IsCoroutineFunction(node.branches[i].condition)
      [] node.type = "loop" -> node.task # None /\ ~IsCoroutineFunction(node.condition)

\* C17: whenever the caller may call the builder, a call of then, parallel,
\* branch or loop with arguments that fail validation can be made and can
\* only raise an error and leave the node list and the registered flag as
\* they are; so every node of the list is one whose arguments passed.
C17_BuilderValidation ==
    /\ \A k \in 1..Len(_tasks) : WellFormed(_tasks[k])
    /\ CallerMayCall =>
          /\ \A task \in ThenArgs :
                InvalidThen(task) =>
                    ENABLED then(task) /\ ~ENABLED (then(task) /\ ~BuildError)
          /\ \A tasks \in ParallelArgs :
                InvalidParallel(tasks) =>
                    ENABLED parallel(tasks) /\ ~ENABLED (parallel(tasks) /\ ~BuildError)
          /\ \A branches \in BranchArgs :
                InvalidBranch(branches) =>
                    ENABLED branch(branches) /\ ~ENABLED (branch(branches) /\ ~BuildError)
          /\ \A args \in LoopArgs :
                InvalidLoop(args[1], args[2]) =>
                    /\ ENABLED loop(args[1], args[2], args[3])
                    /\ ~ENABLED (loop(args[1], args[2], args[3]) /\ ~BuildError)

\* branch has been rejected for an asynchronous predicate on a flow that
\* already has a node and is not registered.
C17_Witness ==
    /\ ~_registered
    /\ Len(_tasks) = 1
    /\ raised = ValueError("Branch conditions cannot be async functions")

\* A step from a state in which the flow is registered leaves it registered,
\* and when it is a call of register() it raises nothing and changes
\* nothing.
RegisteredStep ==
    _registered =>
        /\ _registered'
        /\ register => (raised' = None /\ UNCHANGED <<flowVars, runVars>>)

\* C18: once the flow is registered no step - register again, a rejected
\* builder call, set_metadata, run or a step of a run - returns it to the
\* unregistered state, and register() on a registered flow is a no-op.
C18_RegistrationPermanent == [][RegisteredStep]_vars

\* The registered flow has been run to its end, has had metadata set and has
\* rejected a builder call since.
C18_Witness ==
    /\ _registered
    /\ pc = "done"
    /\ metadata # <<>>
    /\ raised = RuntimeError("Cannot add tasks after registration")

\* The number of nodes of the latest execution that have returned.
Completed == IF pc \in {"for", "done"} THEN step_number ELSE step_number - 1

\* The root context as the latest execution alone makes it: constructed
\* empty at its start, then given the output of each of its first k nodes
\* that has a 'task' key.
RECURSIVE RootAfter(_)
RootAfter(k) ==
    IF k = 0 THEN ExecutionContext(FlowId, runs, NoneStr, 0, 1, context.flow_metadata)
    ELSE IF "task" \in DOMAIN _tasks[k]
         THEN add_task_output(RootAfter(k - 1), _tasks[k].task.id, NodeOutput(k))
         ELSE RootAfter(k - 1)

\* history begins with the records of prefix.
StartsWith(history, prefix) ==
    /\ Len(prefix) <= Len(history)
    /\ SubSeq(history, 1, Len(prefix)) = prefix

Running == pc \in {"for", "task", "gather"}

\* The predicate calls among a sequence of calls.
Conds(made) == SelectSeq(made, LAMBDA e : e.kind = "cond")

\* The most body calls node may make in one execution of it.
MostBodies(node) ==
    CASE node.type = "sequential" -> 1
      [] node.type = "parallel"   -> Len(node.tasks)
      [] node.type = "branch"     -> 1
      [] node.type = "loop"       -> IF node.max_iterations > 0
                                     THEN node.max_iterations ELSE 0

\* How a run stands: an ended run is Completed with a result after the last
\* node or Failed with an error; the nodes are entered once each, in list
\* order; no node makes more body calls than MostBodies, and a Loop node
\* tests its predicate at most once more than it runs its body.
BoundedRun ==
    /\ pc = "done" =>
          (result # None /\ error = None /\ step_number = Len(_tasks))
    /\ pc = "failed" => (error # None /\ result = None)
    /\ runs >= 1 =>
          /\ step_number \in 0..Len(_tasks)
          /\ Len(inputs) = step_number
          /\ \A p \in 1..Len(calls) : calls[p].step_number \in 1..step_number
          /\ \A k \in 1..step_number :
                /\ Len(Bodies(StepCalls(k))) <= MostBodies(_tasks[k])
                /\ _tasks[k].type = "loop" =>
                      Len(Conds(StepCalls(k))) <= MostBodies(_tasks[k]) + 1

\* C19: with every body and predicate terminating and the event loop running
\* what is ready, a run that is under way ends, Completed with a result or
\* Failed with an error; on the way each node of the finite list is entered
\* once, and a Loop node runs its body at most max_iterations times whatever
\* its predicate returns.
C19_RunTerminates ==
    /\ []BoundedRun
    /\ Running ~> (pc \in {"done", "failed"})

\* A two-node run has ended Completed whose first node, a Loop whose
\* predicate always holds, ran its body max_iterations = 2 times.
C19_Witness ==
    /\ pc = "done"
    /\ result # None
    /\ Len(_tasks) = 2
    /\ _tasks[1].type = "loop"
    /\ _tasks[1].condition = "always"
    /\ _tasks[1].max_iterations = 2
    /\ Len(Bodies(StepCalls(1))) = 2
    /\ Len(Conds(StepCalls(1))) = 3

\* What the caller of Task(...) has afterwards, by the arguments: a WaterError
\* and no Task when input_schema or output_schema is not a BaseModel class
\* (None or another value) or execute is not callable (None or another
\* value); otherwise no error and a Task that holds the schemas and the body
\* given, whose id is not empty: the id given when that is a non-empty
\* string, a generated one when it is None or empty.
Constructed(input_schema, output_schema, execute, id, description) ==
    IF \/ ~IsBaseModelClass(input_schema)
       \/ ~IsBaseModelClass(output_schema)
       \/ ~callable(execute)
    THEN /\ created' = None
         /\ create_raised' # None
         /\ create_raised'.type = "WaterError"
    ELSE /\ create_raised' = None
         /\ created' # None
         /\ created'.id # ""
         /\ created'.id # NoneStr
         /\ Truthy(id) => created'.id = id
         /\ ~Truthy(id) => created'.id \in GeneratedIds
         /\ created'.input_schema = input_schema
         /\ created'.output_schema = output_schema
         /\ created'.execute = execute

\* C20: Task(...) and create_task(...) can be called with any arguments, and
\* every call ends as Constructed says: it fails with an error when the
\* input schema, the output schema or a callable body is missing, and
\* otherwise returns a task with a non-empty id, the one supplied or a
\* generated one.  Whatever was constructed last has a non-empty id, and a
\* failed construction leaves no task.
C20_TaskConstruction ==
    /\ \A input_schema \in SchemaArgs, output_schema \in SchemaArgs,
          execute \in ExecuteArgs, id \in IdArgs, description \in DescriptionArgs :
          /\ ENABLED Task(input_schema, output_schema, execute, id, description)
          /\ ~ENABLED (/\ Task(input_schema, output_schema, execute, id, description)
                       /\ ~Constructed(input_schema, output_schema, execute, id,
                                       description))
          /\ ~ENABLED (/\ create_task(id, description, input_schema, output_schema,
                                      execute)
                       /\ ~Constructed(input_schema, output_schema, execute, id,
                                       description))
    /\ created # None =>
          /\ create_raised = None
          /\ Truthy(created.id)
          /\ IsBaseModelClass(created.input_schema)
          /\ IsBaseModelClass(created.output_schema)
          /\ callable(created.execute)
    /\ create_raised # None => created = None

\* A task has been constructed with a generated id and the default
\* description made from it.
C20_Witness ==
    /\ created # None
    /\ created.id \in GeneratedIds
    /\ created.description = "Task " \o created.id
    /\ create_raised = None

\* C22: the calls a Loop node makes alternate predicate, body, predicate,
\* body, ...: the first predicate is evaluated on the node's input; a body
\* is invoked on the data the predicate before it was evaluated on, and only
\* when that predicate held; the predicate after a body is evaluated on the
\* output that body returned, so iteration i+1 starts after iteration i has
\* returned and on its output; and the body now running is the last call,
\* iteration number (calls made / 2) - 1.
C22_LoopOrder ==
    \A k \in 1..Len(inputs) :
        _tasks[k].type = "loop" =>
            LET node == _tasks[k]
                made == StepCalls(k)
            IN  /\ Len(made) >= 1
                /\ made[1].input = inputs[k]
                /\ \A p \in 1..Len(made) :
                      IF p % 2 = 1
                      THEN /\ made[p] = CondCall(runs, k, node.condition, made[p].input)
                           /\ p > 1 =>
                                 /\ ~BodyRaises(node.task, made[p - 1].input)
                                 /\ made[p].input = BodyOutput(node.task, made[p - 1].input)
                      ELSE /\ made[p] = BodyCall(runs, k, node.task, made[p - 1].input)
                           /\ Holds(node.condition, made[p].input)
                /\ (pc = "task" /\ step_number = k) =>
                      /\ Len(made) % 2 = 0
                      /\ made[Len(made)].input = frame.input
                      /\ frame.iteration_count = (Len(made) \div 2) - 1
                /\ NodeCompleted(k) =>
                      /\ Len(made) % 2 = 1
                      /\ NodeOutput(k) = made[Len(made)].input

\* The third iteration of loop(always, flaky) on {value: 2} is running on
\* {value: 4}, the output of the second.
C22_Witness ==
    /\ pc = "task"
    /\ step_number = 1
    /\ _tasks[1] = LoopNode("always", flaky, DEFAULT_MAX_ITERATIONS)
    /\ inputs[1] = Scalar(2)
    /\ frame.iteration_count = 2
    /\ frame.input = Scalar(4)

\* The iterations of the Loop node at step k whose bodies have returned: a
\* predicate evaluation precedes the first and follows each.
Returned(k) == Len(Conds(StepCalls(k))) - 1

\* What the step context of the Loop node at step k holds once n of its
\* iterations have returned: what the root context held when the node was
\* entered and, for each of these iterations in order, its output under
\* the synthesized id.
RECURSIVE LoopContextAfter(_, _)
LoopContextAfter(k, n) ==
    IF n = 0
    THEN create_child_context(RootAfter(k - 1), StepTaskId(k), k, 1)
    ELSE add_task_output(LoopContextAfter(k, n - 1),
                         IterTaskId(_tasks[k].task, n - 1),
                         Iterate(_tasks[k].task, inputs[k], n))

\* C23: while step k is a Loop node, its step context holds what was
\* recorded before the loop and the outputs of the iterations that have
\* returned, iteration i under '<task id>_iter_<i>'; the body of iteration
\* i runs with a context of its own, forked from that step context, with
\* attempt number i + 1, whose outputs are those recorded before the loop
\* and those of iterations 0..i-1 and of no other.
C23_IterationContexts ==
    \A k \in 1..Len(inputs) :
        (k = step_number /\ _tasks[k].type = "loop") =>
            LET node == _tasks[k]
                n == Returned(k)
                before == RootAfter(k - 1)
                iter_ids == {IterTaskId(node.task, j) : j \in 0..(n - 1)}
            IN  /\ n >= 0
                /\ step_context = LoopContextAfter(k, n)
                /\ DOMAIN step_context.task_outputs = DOMAIN before.task_outputs \cup iter_ids
                /\ \A id \in DOMAIN before.task_outputs :
                      step_context.task_outputs[id] = before.task_outputs[id]
                /\ \A j \in 0..(n - 1) :
                      step_context.task_outputs[IterTaskId(node.task, j)] =
                          Iterate(node.task, inputs[k], j + 1)
                /\ pc = "task" =>
                      /\ frame.iteration_count = n
                      /\ frame.context.attempt_number = n + 1
                      /\ frame.context.step_number = k
                      /\ frame.context.execution_id = runs
                      /\ frame.context.task_outputs = step_context.task_outputs
                      /\ frame.context.step_history = step_context.step_history
                      /\ frame.context # step_context

\* The second iteration of a Loop node at step 2 is running: its context has
\* attempt number 2 and holds the output of the first node and that of
\* iteration 0 under 'A_iter_0'.
C23_Witness ==
    /\ pc = "task"
    /\ step_number = 2
    /\ _tasks[1].type = "sequential"
    /\ _tasks[2] = LoopNode("always", add5, 2)
    /\ frame.iteration_count = 1
    /\ frame.context.attempt_number = 2
    /\ DOMAIN frame.context.task_outputs = {_tasks[1].task.id, "A_iter_0"}
    /\ Len(step_context.step_history) = 2

\* C26: a predicate call that raises is the last call of its run, which has
\* failed at that node with the very exception the predicate raised and
\* returns nothing.  At a Branch node the calls made are the predicates up
\* to the raising one, in declaration order, and no body.  At a Loop node
\* no body is invoked after the iterations that had returned, and the step
\* context still holds the outputs of these iterations.
C26_PredicateRaises ==
    \A p \in 1..Len(RunCalls) :
        (/\ RunCalls[p].kind = "cond"
         /\ CondRaises(RunCalls[p].condition, RunCalls[p].input)) =>
            LET k == RunCalls[p].step_number
                node == _tasks[k]
                made == StepCalls(k)
            IN  /\ p = Len(RunCalls)
                /\ pc = "failed"
                /\ step_number = k
                /\ error = Exc(RunCalls[p].condition, RunCalls[p].input)
                /\ result = None
                /\ context = RootAfter(k - 1)
                /\ node.type \in {"branch", "loop"}
                /\ node.type = "branch" =>
                      /\ Len(made) <= Len(node.branches)
                      /\ made = [i \in 1..Len(made) |->
                                   CondCall(runs, k, node.branches[i].condition, inputs[k])]
                /\ node.type = "loop" =>
                      /\ Len(Bodies(made)) = Returned(k)
                      /\ step_context = LoopContextAfter(k, Returned(k))
                      /\ \A j \in 0..(Returned(k) - 1) :
                            get_task_output(step_context, IterTaskId(node.task, j)) =
                                Iterate(node.task, inputs[k], j + 1)

\* loop(picky, add5) on {value: 2} has failed with the error picky raised
\* on {value: 7}, the output of iteration 0, which the step context holds.
C26_Witness ==
    /\ pc = "failed"
    /\ step_number = 1
    /\ _tasks[1] = LoopNode("picky", add5, DEFAULT_MAX_ITERATIONS)
    /\ inputs[1] = Scalar(2)
    /\ error = Exc("picky", Scalar(7))
    /\ get_task_output(step_context, "A_iter_0") = Scalar(7)
    /\ Len(Bodies(StepCalls(1))) = 1

\* ctx is scoped to task within the latest run: its current task id is the
\* task's id and its flow id and execution id are the root context's.
ScopedTo(ctx, task) ==
    /\ ctx.task_id = task.id
    /\ ctx.flow_id = context.flow_id
    /\ ctx.execution_id = context.execution_id

\* C28: the context handed to a body that has been invoked and has not yet
\* returned - the body of a Sequential node, of the matched Branch task or
\* of a Loop iteration, or a sibling of a Parallel node - is scoped to the
\* task of that body.
C28_ScopedContext ==
    /\ pc = "task" =>
          /\ ScopedTo(frame.context, frame.task)
          /\ frame.site = _tasks[step_number].type
          /\ frame.task \in TasksOf(_tasks[step_number])
    /\ \A c \in coros :
          (c.execution_id = runs /\ c.status = "running") =>
              /\ ScopedTo(c.context, c.task)
              /\ c.task = _tasks[c.step].tasks[c.index]

\* The body of the second iteration of a Loop node is running with a context
\* whose task id is the task's, not the id synthesized for the iteration.
C28_Witness ==
    /\ pc = "task"
    /\ frame.site = "loop"
    /\ frame.iteration_count = 1
    /\ frame.task = add5
    /\ frame.context.task_id = "A"
    /\ frame.context.execution_id = runs

\* C29: in a run whose nodes returned so far are all Sequential, k of them,
\* get_step_history() of the root context is k records, the i-th holding
\* the id of the i-th node's task and the output that node returned, which
\* is what its body makes of the data it was handed.
C29_ChainHistory ==
    (runs >= 1 /\ \A i \in 1..Completed : _tasks[i].type = "sequential") =>
        LET history == context.step_history
        IN  /\ Len(history) = Completed
            /\ \A i \in 1..Completed :
                  /\ history[i].task_id = _tasks[i].task.id
                  /\ history[i].output = NodeOutput(i)
                  /\ history[i].output = BodyOutput(_tasks[i].task, inputs[i])

\* then(add5).then(dbl) on {value: 2} has completed: the history is the
\* record of A with {value: 7} and then that of B with {value: 14}.
C29_Witness ==
    /\ pc = "done"
    /\ _tasks = <<SequentialNode(add5), SequentialNode(dbl)>>
    /\ input_data = Scalar(2)
    /\ Len(context.step_history) = 2
    /\ context.step_history[1].task_id = "A"
    /\ context.step_history[1].output = Scalar(7)
    /\ context.step_history[2].task_id = "B"
    /\ context.step_history[2].output = Scalar(14)

\* C24: the step context of top-level node k has step number k, the
\* siblings of a Parallel node have contexts with step numbers that differ
\* from one another, and no sibling's step number is the index of another
\* top-level node of the flow.
C24_UniqueStepNumbers ==
    /\ (runs >= 1 /\ step_number >= 1) => step_context.step_number = step_number
    /\ \A c \in coros :
          c.execution_id = runs =>
              /\ \A o \in coros :
                    (o.execution_id = runs /\ o.step = c.step /\ o.index # c.index) =>
                        o.context.step_number # c.context.step_number
              /\ \A k \in 1..Len(_tasks) :
                    k # c.step => c.context.step_number # k

\* C27: a node of the run whose kind is none of sequential, parallel,
\* branch, loop has been entered only to fail the run there, with the
\* ValueError that names the kind: no call was made for it, it did not
\* return, no later node was entered, and every node before it is of a
\* known kind and returned, leaving the root context what these nodes made
\* it.  While such a node is the next one, the run cannot take any step but
\* this failure.
C27_UnknownNodeKind ==
    /\ \A k \in 1..Len(inputs) :
          _tasks[k].type \notin NodeTypes =>
              /\ pc = "failed"
              /\ step_number = k
              /\ Len(inputs) = k
              /\ error = ValueError("Unknown node type: " \o _tasks[k].type)
              /\ result = None
              /\ StepCalls(k) = <<>>
              /\ ~NodeCompleted(k)
              /\ context = RootAfter(k - 1)
              /\ \A i \in 1..(k - 1) :
                    /\ _tasks[i].type \in NodeTypes
                    /\ NodeCompleted(i)
    /\ (pc = "for" /\ step_number < Len(_tasks) /\ NextNode.type \notin NodeTypes) =>
          /\ ENABLED ExecuteUnknown
          /\ ~ENABLED ((RunStep \/ ExecuteUnknown) /\ pc' # "failed")

\* then(add5) followed by a node of kind "retry" on {value: 2}: the first
\* node returned {value: 7} and the run has failed at the second with no
\* call made for it.
C27_Witness ==
    /\ pc = "failed"
    /\ step_number = 2
    /\ _tasks = <<SequentialNode(add5), [type |-> "retry", task |-> add5]>>
    /\ input_data = Scalar(2)
    /\ data = Scalar(7)
    /\ Len(calls) = 1
    /\ error = ValueError("Unknown node type: retry")

\* The contexts of the latest run: the root context, the step context, the
\* context of the body running and those of the siblings.
RunContexts ==
    {context}
    \cup (IF step_context = None THEN {} ELSE {step_context})
    \cup (IF pc = "task" THEN {frame.context} ELSE {})
    \cup {c.context : c \in {o \in coros : o.execution_id = runs}}

\* C25: a run starts with a root context that exposes the flow's metadata
\* as it is then; from then on, whatever happens while the run is in
\* progress, a set_metadata call on the flow included, every context of the
\* run exposes after the step what it exposed before it, and every context
\* the step creates exposes what the root context exposed.
MetadataKept ==
    /\ runs' # runs => Exposes(context', metadata') = metadata'
    /\ (runs' = runs /\ pc \in {"for", "task", "gather"}) =>
          /\ \A ctx \in RunContexts : Exposes(ctx, metadata') = Exposes(ctx, metadata)
          /\ \A ctx \in RunContexts' : Exposes(ctx, metadata') = Exposes(context, metadata)

C25_MetadataReadOnly == [][MetadataKept]_vars

\* The object at position i of cs with the dict and the list it refers to
\* in hp: all that can be read through it.
Whole(cs, hp, i) ==
    [ object       |-> [cs[i] EXCEPT !._task_outputs = 0, !._step_history = 0],
      task_outputs |-> hp[cs[i]._task_outputs],
      step_history |-> hp[cs[i]._step_history] ]

\* The same as a context value: the fields the engine reads.
ViewOf(cs, hp, i) ==
    [ ExecutionContext(cs[i].flow_id, cs[i].execution_id, cs[i].task_id, cs[i].step_number,
                       cs[i].attempt_number, EmptyDict)
      EXCEPT !.task_outputs = hp[cs[i]._task_outputs],
             !.step_history = hp[cs[i]._step_history] ]

\* After the step every context but c is as it was: outputs map, history,
\* task id, step start time and the rest.
OthersKept(c) ==
    /\ Len(ctxs') = Len(ctxs)
    /\ \A i \in Contexts \ {c} : Whole(ctxs', heap', i) = Whole(ctxs, heap, i)

\* After the step every context is as it was and there is one more, which
\* holds what its parent p holds.
Forked(p, task_id, number, attempt_number) ==
    /\ Len(ctxs') = Len(ctxs) + 1
    /\ \A i \in Contexts : Whole(ctxs', heap', i) = Whole(ctxs, heap, i)
    /\ ViewOf(ctxs', heap', Len(ctxs) + 1) =
          create_child_context(ViewOf(ctxs, heap, p), task_id, number, attempt_number)
    /\ ctxs'[Len(ctxs) + 1].execution_start_time = ctxs[p].execution_start_time

\* C21: whatever contexts have been forked from one another: a fork can be
\* made of each and leaves every context as it was; recording an output in
\* a context, and handing a context to a task (which sets its task id and
\* step start time), leave every other context as it was - the parent, the
\* children forked before and the siblings; no two contexts refer to the
\* same dict or list.
C21_ForkIsolation ==
    /\ \A p \in Contexts, args \in ChildArgs :
          /\ Len(ctxs) < MaxContexts => ENABLED ctx_create_child_context(p, args[1], args[2], 1)
          /\ ~ENABLED (/\ ctx_create_child_context(p, args[1], args[2], 1)
                       /\ ~Forked(p, args[1], args[2], 1))
    /\ \A c \in Contexts, args \in RecordArgs :
          /\ Len(heap[ctxs[c]._step_history]) < MaxRecords =>
                ENABLED ctx_add_task_output(c, args[1], args[2])
          /\ ~ENABLED (ctx_add_task_output(c, args[1], args[2]) /\ ~OthersKept(c))
    /\ \A c \in Contexts, task \in EnterArgs :
          ~ENABLED (ctx_execute_task(c, task) /\ ~OthersKept(c))
    /\ \A i, j \in Contexts :
          i # j => {ctxs[i]._task_outputs, ctxs[i]._step_history}
                      \cap {ctxs[j]._task_outputs, ctxs[j]._step_history} = {}

\* Three contexts that share their first record, made before the forks,
\* and have each a second record of their own, made after; the second
\* context has been handed to a task and the first has not.
C21_Witness ==
    /\ Len(ctxs) = 3
    /\ \A i \in 1..3 : Len(heap[ctxs[i]._step_history]) = 2
    /\ \A i, j \in 1..3 :
          /\ heap[ctxs[i]._step_history][1] = heap[ctxs[j]._step_history][1]
          /\ i # j => heap[ctxs[i]._step_history][2].output
                          # heap[ctxs[j]._step_history][2].output
                       \/ heap[ctxs[i]._step_history][2].task_id
                          # heap[ctxs[j]._step_history][2].task_id
    /\ ctxs[1].task_id = NoneStr
    /\ ctxs[2].task_id = "B"
    /\ ctxs[2].step_start_time # ctxs[1].step_start_time

\* The positions in history of the records of task_id.
RecordsOf(history, task_id) == {j \in 1..Len(history) : history[j].task_id = task_id}

\* The largest of a non-empty set of positions.
Last(S) == CHOOSE j \in S : \A k \in S : k <= j

\* The outputs map agrees with the history: its keys are the task ids that
\* occur in the history and its value for an id is the output of the last
\* record of that id.
Agree(task_outputs, history) ==
    /\ DOMAIN task_outputs = {history[j].task_id : j \in 1..Len(history)}
    /\ \A id \in DOMAIN task_outputs :
          task_outputs[id] = history[Last(RecordsOf(history, id))].output

\* C30: in every context the outputs map agrees with the history.  An
\* add_task_output call on a context appends one record to its history,
\* that of the id and output given, and sets the map's value for the id,
\* as add_task_output on context values does; a fork gives the child the
\* history of the parent; and no step removes or changes a record of any
\* history or adds more than one.
C30_HistoryAndOutputs ==
    /\ \A i \in Contexts : Agree(heap[ctxs[i]._task_outputs], heap[ctxs[i]._step_history])
    /\ \A c \in Contexts, args \in RecordArgs :
          ~ENABLED (/\ ctx_add_task_output(c, args[1], args[2])
                    /\ ~(/\ heap'[ctxs[c]._step_history] =
                               Append(heap[ctxs[c]._step_history],
                                      StepInfo(ctxs[c], args[1], args[2]))
                         /\ heap'[ctxs[c]._task_outputs][args[1]] = args[2]
                         /\ ViewOf(ctxs', heap', c) =
                               add_task_output(ViewOf(ctxs, heap, c), args[1], args[2])))
    /\ \A p \in Contexts, args \in ChildArgs :
          ~ENABLED (/\ ctx_create_child_context(p, args[1], args[2], 1)
                    /\ heap'[ctxs'[Len(ctxs) + 1]._step_history] # heap[ctxs[p]._step_history])
    /\ ~ENABLED (/\ NextContext
                 /\ ~(\A i \in Contexts :
                        /\ Len(heap'[ctxs'[i]._step_history])
                              \in {Len(heap[ctxs[i]._step_history]),
                                   Len(heap[ctxs[i]._step_history]) + 1}
                        /\ StartsWith(heap'[ctxs'[i]._step_history],
                                      heap[ctxs[i]._step_history])))

\* A forked context whose history is the record of A with {value: 1} it
\* was forked with and the record of A with {value: 2} made in it, and whose
\* map gives {value: 2} for A, while its parent has gone on to record B.
C30_Witness ==
    /\ Len(ctxs) >= 2
    /\ Len(heap[ctxs[2]._step_history]) = 2
    /\ heap[ctxs[2]._step_history][1].output = Scalar(1)
    /\ heap[ctxs[2]._step_history][2].output = Scalar(2)
    /\ heap[ctxs[2]._task_outputs] = [A |-> Scalar(2)]
    /\ DOMAIN heap[ctxs[1]._task_outputs] = {"A", "B"}
    /\ heap[ctxs[1]._task_outputs]["A"] = Scalar(1)

\* The nodes the four builder methods make from arguments that pass their
\* validation.
BuiltNodes ==
    {SequentialNode(task) : task \in {t \in ThenArgs : ~InvalidThen(t)}}
    \cup {ParallelNode(tasks) : tasks \in {t \in ParallelArgs : ~InvalidParallel(t)}}
    \cup {BranchNode(branches) : branches \in {b \in BranchArgs : ~InvalidBranch(b)}}
    \cup {LoopNode(args[1], args[2], args[3]) :
             args \in {a \in LoopArgs : ~InvalidLoop(a[1], a[2])}}

\* The call returns the flow, still unregistered, with node as its last
\* node and its earlier nodes as they were.
Appends(node) ==
    /\ raised' = None
    /\ ~_registered'
    /\ Len(_tasks') = Len(_tasks) + 1
    /\ \A i \in 1..Len(_tasks) : _tasks'[i] = _tasks[i]
    /\ _tasks'[Len(_tasks')] = node

\* A step from a state in which the flow is not registered: a builder call
\* with valid arguments appends its node, and the node list changes in no
\* other way.
BuildStep ==
    ~_registered =>
        /\ \A task \in ThenArgs :
              (then(task) /\ ~InvalidThen(task)) =>
                  Appends([type |-> "sequential", task |-> task])
        /\ \A tasks \in ParallelArgs :
              (parallel(tasks) /\ ~InvalidParallel(tasks)) =>
                  Appends([type |-> "parallel", tasks |-> tasks])
        /\ \A branches \in BranchArgs :
              (branch(branches) /\ ~InvalidBranch(branches)) =>
                  /\ Appends(BranchNode(branches))
                  /\ _tasks'[Len(_tasks')].type = "branch"
        /\ \A args \in LoopArgs :
              (loop(args[1], args[2], args[3]) /\ ~InvalidLoop(args[1], args[2])) =>
                  Appends([type |-> "loop", condition |-> args[1], task |-> args[2],
                           max_iterations |-> args[3]])
        /\ _tasks' # _tasks => \E node \in BuiltNodes : Appends(node)

\* C31: on an unregistered flow a successful then, parallel, branch or loop
\* call appends exactly one node of its kind at the end of the node list,
\* leaves the earlier nodes and their order as they were, leaves the flow
\* unregistered and returns it; no other step changes the node list, so the
\* list at registration is the sequence of the successful builder calls in
\* call order.
C31_BuilderAppends == [][BuildStep]_vars

\* A Loop node has been appended after a Parallel node to a flow that is
\* still unregistered.
C31_Witness ==
    /\ ~_registered
    /\ raised = None
    /\ Len(_tasks) = 2
    /\ _tasks[1] = ParallelNode(<<add5, inc>>)
    /\ _tasks[2] = LoopNode("lt4", add5, DEFAULT_MAX_ITERATIONS)

\* The context the call returns, the last of ctxs after the step, has the
\* parent's flow id, execution id and run start time, the task id given,
\* and an outputs map and a history equal to the parent's before the step.
ChildOf(p, task_id) ==
    LET child == ctxs'[Len(ctxs')]
    IN  /\ Len(ctxs') = Len(ctxs) + 1
        /\ child.flow_id = ctxs[p].flow_id
        /\ child.execution_id = ctxs[p].execution_id
        /\ child.execution_start_time = ctxs[p].execution_start_time
        /\ child.task_id = task_id
        /\ heap'[child._task_outputs] = heap[ctxs[p]._task_outputs]
        /\ heap'[child._step_history] = heap[ctxs[p]._step_history]

\* C32: create_child_context on any context returns a context with the
\* parent's flow id, execution id and run start time, the task id given,
\* and an outputs map and a history equal to the parent's at the moment of
\* the fork; so every context forked, directly or not, from a root context
\* has the root's flow id, execution id and run start time.
C32_ChildContext ==
    /\ \A p \in Contexts, args \in ChildArgs :
          ~ENABLED (/\ ctx_create_child_context(p, args[1], args[2], 1)
                    /\ ~ChildOf(p, args[1]))
    /\ \A c \in Contexts :
          /\ ctxs[c].flow_id = ctxs[1].flow_id
          /\ ctxs[c].execution_id = ctxs[1].execution_id
          /\ ctxs[c].execution_start_time = ctxs[1].execution_start_time

\* A context forked, after the clock has moved on, from a fork of the root
\* context that had recorded an output by then: its map holds the record.
C32_Witness ==
    /\ Len(ctxs) = 3
    /\ ctxs[2].step_number = 1
    /\ ctxs[3].step_number = 2
    /\ ctxs[3].step_start_time > ctxs[1].execution_start_time
    /\ ctxs[3].task_id = "A"
    /\ heap[ctxs[1]._task_outputs] = <<>>
    /\ heap[ctxs[3]._task_outputs] = [A |-> Scalar(1)]
    /\ Len(heap[ctxs[3]._step_history]) = 1
    /\ heap[ctxs[3]._step_history][1].step_number = ctxs[2].step_number

\* C33: at every point of a run, the root context's outputs map has an
\* entry for a task id only if the body of a task of that id has been
\* invoked in the run, and the entry's value is what such a body returned
\* on the input it was invoked on.
C33_RootOutputsFromBodies ==
    context # None =>
        \A id \in DOMAIN context.task_outputs :
            \E i \in 1..Len(Bodies(RunCalls)) :
                LET e == Bodies(RunCalls)[i]
                IN  /\ e.task.id = id
                    /\ ~BodyRaises(e.task, e.input)
                    /\ context.task_outputs[id] = BodyOutput(e.task, e.input)

\* The top-level node at which the record's output was produced: the node
\* of the latest run entered with the call of a body of the record's task
\* id, or of the id of its iteration, that returned the output, or, for the
\* record the run makes of a Loop node that made no iteration, that node.
ProducedAt(record) ==
    {k \in 1..Len(inputs) :
        \/ \E i \in 1..Len(Bodies(StepCalls(k))) :
              LET e == Bodies(StepCalls(k))[i]
              IN  /\ record.task_id \in {e.task.id, IterTaskId(e.task, i - 1)}
                  /\ ~BodyRaises(e.task, e.input)
                  /\ record.output = BodyOutput(e.task, e.input)
        \/ /\ _tasks[k].type = "loop"
           /\ record.task_id = _tasks[k].task.id
           /\ record.output = inputs[k]}

\* C34: every record in the history of a context of the run carries as its
\* step number the index, counted from 1, of a top-level node at which its
\* output was produced.
C34_RecordStepNumbers ==
    \A ctx \in IF runs = 0 THEN {} ELSE RunContexts :
        \A j \in 1..Len(ctx.step_history) :
            ctx.step_history[j].step_number \in ProducedAt(ctx.step_history[j])

\* C35: the i-th predicate evaluation of a Loop node is made on the data
\* current then, the output of i-1 iterations of the task on the node's
\* input; when the node returns after n iterations it has evaluated its
\* predicate n+1 times, the last time on the data it returns, also when
\* n is max_iterations.
C35_PredicateEvaluations ==
    \A k \in 1..Len(inputs) :
        _tasks[k].type = "loop" =>
            LET node == _tasks[k]
                conds == Conds(StepCalls(k))
                made == Bodies(StepCalls(k))
            IN  /\ \A i \in 1..Len(conds) :
                      conds[i] = CondCall(runs, k, node.condition,
                                          Iterate(node.task, inputs[k], i - 1))
                /\ Len(conds) \in {Len(made), Len(made) + 1}
                /\ NodeCompleted(k) =>
                      /\ Len(conds) = Len(made) + 1
                      /\ conds[Len(conds)].input = NodeOutput(k)

\* loop(always, add5, max_iterations = 2) on {value: 2} has returned after
\* two iterations and three evaluations of its predicate, the last on
\* {value: 12}.
C35_Witness ==
    /\ NodeCompleted(1)
    /\ _tasks[1] = LoopNode("always", add5, 2)
    /\ inputs[1] = Scalar(2)
    /\ Len(Bodies(StepCalls(1))) = 2
    /\ Len(Conds(StepCalls(1))) = 3
    /\ Conds(StepCalls(1))[3].input = Scalar(12)

\* C36: loop() accepts a max_iterations of 0 or less; at a Loop node with
\* such a cap whose predicate returns on the node's input, true or false,
\* no body is invoked, the run does not fail, and the node returns at once
\* the data it was handed.
C36_LoopCapNotPositive ==
    /\ (CallerMayCall /\ ~_registered /\ Len(_tasks) < MaxNodes) =>
          \A args \in LoopArgs :
              (args[3] <= 0 /\ ~InvalidLoop(args[1], args[2])) =>
                  ENABLED (/\ loop(args[1], args[2], args[3])
                           /\ raised' = None
                           /\ _tasks' = Append(_tasks, LoopNode(args[1], args[2], args[3])))
    /\ \A k \in 1..Len(inputs) :
          (/\ _tasks[k].type = "loop"
           /\ _tasks[k].max_iterations <= 0
           /\ ~CondRaises(_tasks[k].condition, inputs[k])) =>
              /\ Bodies(StepCalls(k)) = <<>>
              /\ ~(pc = "failed" /\ step_number = k)
              /\ NodeCompleted(k)
              /\ NodeOutput(k) = inputs[k]

\* The run has returned {value: 2} from {value: 2} through two Loop nodes
\* with caps 0 and -1 whose predicates held, without a body call.
C36_Witness ==
    /\ pc = "done"
    /\ _tasks = <<LoopNode("always", dbl, 0), LoopNode("lt4", add5, -1)>>
    /\ input_data = Scalar(2)
    /\ result = Scalar(2)
    /\ Bodies(RunCalls) = <<>>
    /\ Len(Conds(RunCalls)) = 2

\* The position of the task declared last among those of tasks with the id.
LastDeclared(tasks, id) ==
    CHOOSE i \in 1..Len(tasks) :
        tasks[i].id = id /\ \A j \in 1..Len(tasks) : tasks[j].id = id => j <= i

\* Two tasks of the list have the same id.
SharesAnId(tasks) == \E i, j \in 1..Len(tasks) : i # j /\ tasks[i].id = tasks[j].id

\* C37: parallel() accepts a list in which two tasks have the same id; when
\* such a node has returned, the body of every one of its tasks has been
\* invoked once on the node's input, and the result has one entry per id,
\* whose value is the output of the task declared last with that id, in
\* whatever order the siblings finished.
C37_DuplicateIds ==
    /\ (CallerMayCall /\ ~_registered /\ Len(_tasks) < MaxNodes) =>
          \A tasks \in ParallelArgs :
              (~InvalidParallel(tasks) /\ SharesAnId(tasks)) =>
                  ENABLED (/\ parallel(tasks)
                           /\ raised' = None
                           /\ _tasks' = Append(_tasks, ParallelNode(tasks)))
    /\ \A k \in 1..Len(inputs) :
          (/\ _tasks[k].type = "parallel"
           /\ SharesAnId(_tasks[k].tasks)
           /\ NodeCompleted(k)) =>
              LET tasks == _tasks[k].tasks
                  made == Bodies(StepCalls(k))
                  out == NodeOutput(k)
              IN  /\ Len(made) = Len(tasks)
                  /\ \A i \in 1..Len(tasks) : made[i] = BodyCall(runs, k, tasks[i], inputs[k])
                  /\ DOMAIN out = TaskIds(tasks)
                  /\ \A id \in TaskIds(tasks) :
                        out[id] = BodyOutput(tasks[LastDeclared(tasks, id)], inputs[k])

\* Parallel{add5, inc}, two tasks of id A, has returned {A: {value: 12}} on
\* {value: 2}: the output of inc, declared last.
C37_Witness ==
    /\ NodeCompleted(1)
    /\ _tasks[1] = ParallelNode(<<add5, inc>>)
    /\ inputs[1] = Scalar(2)
    /\ NodeOutput(1) = [A |-> Scalar(12)]

\* The call returns the flow with value under key in its metadata, the
\* other keys and their values as they were, and the node list, the
\* registered flag and the runs as they were.
MetadataSet(key, value) ==
    /\ raised' = None
    /\ DOMAIN metadata' = DOMAIN metadata \cup {key}
    /\ metadata'[key] = value
    /\ \A other \in DOMAIN metadata \ {key} : metadata'[other] = metadata[other]
    /\ _tasks' = _tasks
    /\ _registered' = _registered
    /\ UNCHANGED runVars

\* C38: on a flow registered or not, with or without nodes, set_metadata
\* can be called with any key and value and can only return with that key
\* set to that value, every other key of the metadata, the node list and
\* the registered flag unchanged.
C38_SetMetadataFrame ==
    CallerMayCall =>
        \A args \in KeyArgs :
            /\ ENABLED set_metadata(args[1], args[2])
            /\ ~ENABLED (set_metadata(args[1], args[2]) /\ ~MetadataSet(args[1], args[2]))

\* A registered flow whose metadata holds two keys, one of them set twice:
\* the last call on it returned.
C38_Witness ==
    /\ _registered
    /\ Len(_tasks) = 1
    /\ raised = None
    /\ DOMAIN metadata = {"owner", "team"}
    /\ metadata["owner"] = "dev"
    /\ metadata["team"] = "core"

\* After the step every context is as it was: its outputs map, its history
\* and its fields.
ContextsKept ==
    /\ Len(ctxs') = Len(ctxs)
    /\ \A i \in Contexts : Whole(ctxs', heap', i) = Whole(ctxs, heap, i)

\* After the step get_task_output and get_step_history on context c give
\* what they gave before it.
ReadsKept(c) ==
    /\ \A id \in {"A", "B"} \cup CallerKeys :
          get_task_output(ViewOf(ctxs', heap', c), id) = get_task_output(ViewOf(ctxs, heap, c), id)
    /\ heap'[ctxs'[c]._step_history] = heap[ctxs[c]._step_history]

\* C39: get_all_task_outputs and get_step_history can be called on every
\* context, change no context and return an object equal to the context's
\* outputs map, or history, that is neither of them nor that of another
\* context; adding, replacing or removing an entry of an object returned
\* changes no context, so get_task_output and get_step_history on the
\* context give afterwards what they gave before.
C39_GettersCopy ==
    /\ \A c \in Contexts :
          /\ Len(copies) < MaxCopies =>
                ENABLED ctx_get_all_task_outputs(c) /\ ENABLED ctx_get_step_history(c)
          /\ ~ENABLED (/\ ctx_get_all_task_outputs(c)
                       /\ ~(/\ ContextsKept
                            /\ heap'[copies'[Len(copies')].at] = heap[ctxs[c]._task_outputs]))
          /\ ~ENABLED (/\ ctx_get_step_history(c)
                       /\ ~(/\ ContextsKept
                            /\ heap'[copies'[Len(copies')].at] = heap[ctxs[c]._step_history]))
    /\ \A v \in Copies :
          /\ ~ENABLED (caller_writes_mapping(v) /\ ~(ContextsKept /\ ReadsKept(copies[v].of)))
          /\ ~ENABLED (caller_writes_list(v) /\ ~(ContextsKept /\ ReadsKept(copies[v].of)))
          /\ \A c \in Contexts :
                copies[v].at \notin {ctxs[c]._task_outputs, ctxs[c]._step_history}

\* The caller has removed A from, and added Z to, the mapping it was
\* returned, and has replaced the first record of the list it was returned,
\* while the context still holds A and B and its two records.
C39_Witness ==
    /\ Len(copies) = 2
    /\ copies[1].kind = "dict"
    /\ copies[2].kind = "list"
    /\ heap[copies[1].at] = [k \in {"B", "Z"} |-> IF k = "B" THEN Scalar(1) ELSE CallerValue]
    /\ heap[copies[2].at] = <<CallerRecord, StepInfo(ctxs[1], "B", Scalar(1))>>
    /\ heap[ctxs[1]._task_outputs] = [k \in {"A", "B"} |-> Scalar(1)]
    /\ heap[ctxs[1]._step_history] =
          <<StepInfo(ctxs[1], "A", Scalar(1)), StepInfo(ctxs[1], "B", Scalar(1))>>
====
